---- MODULE Spec2Model ----
(***************************************************************************)
(* Model of the chainhook predicate evaluator (chainhook-sdk,              *)
(* chainhooks/bitcoin/mod.rs), of the predicate status store merge rules   *)
(* and of the event loop of Service::run (chainhook-cli, service/mod.rs).  *)
(*                                                                         *)
(* The specifications that share the module:                               *)
(*   SpecEvaluator - the inputs of evaluate_bitcoin_chainhooks_on_chain_   *)
(*                   event are drawn in InitEvaluator, the actions call it. *)
(*   SpecStatus    - one predicate key of the status store, the actions    *)
(*                   are the merge operations of service/mod.rs.           *)
(*   SpecService   - the event loop of Service::run with one predicate,    *)
(*                   its handlers, and the scan runloop of the predicate.  *)
(*   SpecRefresh   - the event loop fed with app-chain events only.        *)
(*   SpecArchive   - download_stacks_dataset_if_required (chainhook-cli,   *)
(*                   archive/mod.rs) called on a cache and a server.       *)
(*   SpecRestart   - the same with the process started again after it      *)
(*                   exited, panicked or was stopped.                      *)
(*   SpecDownload  - download_tsv_file streaming the archive to its        *)
(*                   decoder thread; SpecDownloadFair schedules both.      *)
(*   SpecCalls     - one call of a function of chainhooks/bitcoin/mod.rs   *)
(*                   on arguments drawn in InitCalls.                      *)
(* Each specification leaves the variables of the other ones untouched.    *)
(***************************************************************************)
EXTENDS Integers, Sequences, FiniteSets, TLC

VARIABLES
    chain_event,        \* the BitcoinChainEvent handed to the evaluator
    active_chainhooks,  \* the Vec<&BitcoinChainhookInstance> handed to the evaluator
    pc,                 \* "ready", "evaluated", "reevaluated"
    first,              \* outcome of the first evaluation of (chain_event, active_chainhooks)
    second,             \* outcome of a second evaluation of the same inputs
    status,             \* the stored PredicateStatus of one predicate key (None when absent)
    prev_status,        \* the stored status before the last status-store write
    last_op,            \* the last status-store operation that ran
    last_input,         \* the arguments and the clock reading of that operation
    now_ms,             \* the wall clock read by the merge operations
    thread_aborted,     \* TRUE once a merge operation hit unreachable!()
    http_api,           \* config.http_api: "On" or "Off"
    predicate_spec,     \* the ChainhookSpecification the observer events carry
    stored_specification, \* the "specification" field of the predicate key
    service_pc,         \* Service::run: "running", "stopped", "panicked"
    stacks_event,       \* the stacks_event counter of Service::run
    stacks_scan_op_tx,  \* specs sent to the Stacks scan runloop, not yet taken
    bitcoin_scan_op_tx, \* specs sent to the Bitcoin scan runloop, not yet taken
    scan,               \* the scan the runloop of the predicate's chain is at
    enable_pending,     \* PredicateEnabled events published and not yet consumed
    observer_predicate, \* the predicate in the observer: "absent", "registered", "enabled"
    event_budget,       \* observer events still to be delivered
    registered_events,  \* PredicateRegistered events consumed so far
    scan_ops_sent,      \* scan operations sent so far, per chain kind
    local_sha_file,     \* the cached <network>-stacks-events.sha256 (None when absent)
    local_tsv_file,     \* the cached <network>-stacks-events.tsv (None when absent)
    remote_sha_file,    \* the body the archive server answers for the sha256 url
    config,             \* the Config handed to download_stacks_dataset_if_required
    archive_pc,         \* the process: "running", "exited" (exit(1)), "panicked"
    archive_calls,      \* what the calls made so far read, did and returned
    downloader,         \* download_tsv_file from the archive response on: its position,
                        \* the response, the sender of the chunk channel
    chunk_channel,      \* the chunk a pending send_async offers (None when there is none)
    decoder_thread,     \* the decoder thread: its ChannelRead and what it has read
    fn_call,            \* a call of a function of chainhooks/bitcoin/mod.rs: its arguments
    fn_returned         \* what the call returned (None until it has)

evaluatorVars == <<chain_event, active_chainhooks, pc, first, second>>
statusVars == <<status, prev_status, last_op, last_input, now_ms, thread_aborted>>
serviceVars == <<http_api, predicate_spec, stored_specification, service_pc,
                 stacks_event, stacks_scan_op_tx, bitcoin_scan_op_tx, scan,
                 enable_pending, observer_predicate, event_budget,
                 registered_events, scan_ops_sent>>
archiveVars == <<local_sha_file, local_tsv_file, remote_sha_file, config,
                 archive_pc, archive_calls, downloader, chunk_channel, decoder_thread>>
callVars == <<fn_call, fn_returned>>
vars == <<chain_event, active_chainhooks, pc, first, second,
          status, prev_status, last_op, last_input, now_ms, thread_aborted,
          http_api, predicate_spec, stored_specification, service_pc,
          stacks_event, stacks_scan_op_tx, bitcoin_scan_op_tx, scan,
          enable_pending, observer_predicate, event_budget,
          registered_events, scan_ops_sent,
          local_sha_file, local_tsv_file, remote_sha_file, config,
          archive_pc, archive_calls, downloader, chunk_channel, decoder_thread,
          fn_call, fn_returned>>

----------------------------------------------------------------------------
(* Bounds of the model. *)

\* Largest start height of an event; end_block ranges over 1..MaxHeight.
MaxHeight == 2
\* Largest number of blocks in new_blocks / blocks_to_apply.
MaxBlocks == 2
\* Largest number of blocks in blocks_to_rollback.
MaxRollback == 1
\* Largest number of transactions in a block.
MaxTxs == 2
\* Largest number of predicates handed to the evaluator.
MaxHooks == 2
\* Number of observer events delivered to Service::run in one behaviour.
MaxEvents == 4

\* Stand-in for u64::MAX (TLC integers are 32 bits wide); every block index
\* of the model is far below it, as every real block index is below u64::MAX.
U64_MAX == 2147483647

----------------------------------------------------------------------------
(* Option<T>: None is the empty sequence, Some(x) the one-element sequence. *)

None == <<>>
Some(x) == <<x>>
\* Result<T, String>
Ok(value) == [ok |-> TRUE, value |-> value]
Err(error) == [ok |-> FALSE, error |-> error]

unwrap_or(opt, default) == IF opt = None THEN default ELSE opt[1]

(* BTreeMap<K, V> as a function; insert overwrites the value of a present key. *)
EmptyMap == [k \in {} |-> None]
MapInsert(m, k, v) == [x \in (DOMAIN m) \cup {k} |-> IF x = k THEN v ELSE m[x]]

----------------------------------------------------------------------------
(* Transactions, blocks, predicates. *)

\* BitcoinTransactionData, reduced to the fields the predicates read.
Tx(hash, inputs, stacks_operations, ordinal_operations, brc20_operation) ==
    [transaction_identifier |-> [hash |-> hash],
     metadata |-> [inputs |-> inputs,
                   stacks_operations |-> stacks_operations,
                   ordinal_operations |-> ordinal_operations,
                   brc20_operation |-> brc20_operation]]

TxIn(txid, vout) == [previous_output |-> [txid |-> [hash |-> txid], vout |-> vout]]

\* An inscription reveal that is not a BRC-20 operation, spending (c, 0).
TxA == Tx("a", <<TxIn("c", 0)>>, <<>>, <<"inscription_revealed">>, None)
\* A plain transaction carrying a Stacks block commit, spending (c, 1).
TxB == Tx("b", <<TxIn("c", 1)>>, <<"block_committed">>, <<>>, None)

Transactions == {TxA, TxB}

\* The sequences of pairwise different transactions a block can hold.
TxLists ==
    UNION { { s \in [1..n -> Transactions] :
                \A i, j \in 1..n : i # j => s[i] # s[j] } : n \in 0..MaxTxs }

\* BitcoinBlockData: the two branches of the chain differ by the block hash.
Block(index, hash, transactions) ==
    [block_identifier |-> [index |-> index, hash |-> hash],
     transactions |-> transactions]

\* Consecutive blocks of one branch from height h on, at most max of them.
BlockLists(h, hash, max) ==
    UNION { { [i \in 1..n |-> Block(h + i - 1, hash, txs[i])] :
                txs \in [1..n -> TxLists] } : n \in 0..max }

\* BitcoinChainEvent
ChainUpdatedWithBlocks(new_blocks) ==
    [kind |-> "ChainUpdatedWithBlocks", new_blocks |-> new_blocks,
     blocks_to_rollback |-> <<>>, blocks_to_apply |-> <<>>]
ChainUpdatedWithReorg(blocks_to_rollback, blocks_to_apply) ==
    [kind |-> "ChainUpdatedWithReorg", new_blocks |-> <<>>,
     blocks_to_rollback |-> blocks_to_rollback, blocks_to_apply |-> blocks_to_apply]

ChainEvents ==
    UNION { { ChainUpdatedWithBlocks(bs) : bs \in BlockLists(h, "main", MaxBlocks) \ {<<>>} }
            \cup
            { ChainUpdatedWithReorg(rb, ap) :
                rb \in BlockLists(h, "fork", MaxRollback),
                ap \in BlockLists(h, "main", MaxBlocks) } : h \in 1..MaxHeight }

\* BitcoinPredicateType
PredicateBlock == [scope |-> "block"]
PredicateTxid(txid) == [scope |-> "txid", equals |-> txid]
PredicateInputsTxid(txid, vout) ==
    [scope |-> "inputs", rule |-> "txid", txid |-> txid, vout |-> vout]
PredicateInputsWitnessScript == [scope |-> "inputs", rule |-> "witness_script"]
PredicateStacksProtocol(operation) == [scope |-> "stacks_protocol", operation |-> operation]
PredicateOutputsOpReturn(matching_rule) ==
    [scope |-> "outputs", rule |-> "op_return", matching_rule |-> matching_rule]
PredicateOrdinalsProtocol(meta_protocols) ==
    [scope |-> "ordinals_protocol", meta_protocols |-> meta_protocols]
\* Outputs(P2pkh | P2sh | P2wpkh | P2wsh (Equals(encoded_address)))
PredicateOutputsAddress(rule, encoded_address) ==
    [scope |-> "outputs", rule |-> rule, encoded_address |-> encoded_address]
\* Outputs(Descriptor(DescriptorMatchingRule { expression, range }))
PredicateOutputsDescriptor(expression, range) ==
    [scope |-> "outputs", rule |-> "descriptor", expression |-> expression, range |-> range]

\* The predicates the evaluator is driven with.
Predicates ==
    { PredicateBlock,
      PredicateTxid("a"),
      PredicateOrdinalsProtocol(Some({"All", "Brc20"})),
      PredicateInputsWitnessScript }

EndBlocks == {None} \cup { Some(e) : e \in 1..MaxHeight }

\* The uuid of the predicate at a position of the caller's list.
UuidAt(i) == <<"uuid-1", "uuid-2", "uuid-3", "uuid-4">>[i]

\* BitcoinChainhookInstance, reduced to the fields the evaluator reads.
ChainhookLists ==
    UNION { { [i \in 1..n |-> [uuid |-> UuidAt(i),
                               end_block |-> ebs[i],
                               predicate |-> ps[i]]] :
                ps \in [1..n -> Predicates], ebs \in [1..n -> EndBlocks] } : n \in 1..MaxHooks }

\* The orders in which a HashSet's iterator can yield the elements of a set.
IterationOrders(set) ==
    { s \in [1..Cardinality(set) -> set] :
        \A i, j \in 1..Cardinality(set) : i # j => s[i] # s[j] }

\* The iteration orders of the meta_protocols set of a predicate (one empty
\* order for a predicate that holds no set).
PredicateIterationOrders(predicate) ==
    IF predicate.scope = "ordinals_protocol" /\ predicate.meta_protocols # None
    THEN IterationOrders(predicate.meta_protocols[1])
    ELSE {<<>>}

----------------------------------------------------------------------------
(* BitcoinPredicateType::evaluate_transaction_predicate.  The outcome is   *)
(* "match", "no_match", or "unimplemented" when the arm panics.  iter is   *)
(* the order in which meta_protocols.iter() yields the set's elements.     *)

Outcome(b) == IF b THEN "match" ELSE "no_match"

\* The OrdinalsProtocol arm: both arms of the inner match return, so the
\* first element the iterator yields decides.
evaluate_inscription_feed(meta_protocols, tx, iter) ==
    IF meta_protocols = None
    THEN Outcome(tx.metadata.ordinal_operations # <<>>)
    ELSE IF iter = <<>>
         THEN "no_match"
         ELSE IF Head(iter) = "All"
              THEN Outcome(tx.metadata.ordinal_operations # <<>>)
              ELSE Outcome(tx.metadata.brc20_operation # None)

\* The StacksProtocol arms: StackerRewarded looks for BlockCommitted too.
evaluate_stacks_protocol(operation, tx) ==
    LET wanted == IF operation = "stacker_rewarded" THEN "block_committed" ELSE operation
    IN  Outcome(\E i \in DOMAIN tx.metadata.stacks_operations :
                    tx.metadata.stacks_operations[i] = wanted)

\* Strings are sequences of characters; a byte is its two lower-case hex
\* digits.
HexDigits == {"0", "1", "2", "3", "4", "5", "6", "7", "8", "9",
              "a", "b", "c", "d", "e", "f"}

\* char::to_lowercase and str::to_lowercase, on the letters of hex strings.
char_to_lowercase(c) ==
    CASE c = "A" -> "a" [] c = "B" -> "b" [] c = "C" -> "c"
      [] c = "D" -> "d" [] c = "E" -> "e" [] c = "F" -> "f"
      [] c = "X" -> "x" [] OTHER -> c
to_lowercase(str) == [i \in DOMAIN str |-> char_to_lowercase(str[i])]

\* str::starts_with, str::ends_with, str::strip_prefix("0x")
str_starts_with(str, pat) ==
    Len(pat) <= Len(str) /\ SubSeq(str, 1, Len(pat)) = pat
str_ends_with(str, pat) ==
    Len(pat) <= Len(str) /\ SubSeq(str, Len(str) - Len(pat) + 1, Len(str)) = pat
strip_prefix_0x(str) ==
    IF str_starts_with(str, <<"0", "x">>) THEN Some(SubSeq(str, 3, Len(str))) ELSE None

\* Vec::<u8>::from_hex: Err (None) on an odd length or a character that is
\* no hex digit; both cases of the letters are accepted.
from_hex(str) ==
    IF Len(str) % 2 = 0 /\ \A i \in DOMAIN str : char_to_lowercase(str[i]) \in HexDigits
    THEN Some([k \in 1..(Len(str) \div 2) |->
                  <<char_to_lowercase(str[2 * k - 1]), char_to_lowercase(str[2 * k])>>])
    ELSE None

\* hex::encode of bytes: lower-case digits.
hex_encode(bytes) ==
    [i \in 1..(2 * Len(bytes)) |-> bytes[(i + 1) \div 2][IF i % 2 = 1 THEN 1 ELSE 2]]

\* The ASCII code of the characters patterns are written with.
AsciiByte(c) ==
    CASE c = "0" -> <<"3", "0">> [] c = "1" -> <<"3", "1">>
      [] c = "6" -> <<"3", "6">> [] c = "x" -> <<"7", "8">>
      [] c = "a" -> <<"6", "1">> [] c = "b" -> <<"6", "2">>
      [] c = "A" -> <<"4", "1">> [] c = "B" -> <<"4", "2">>

\* hex::encode of a &str: the hex of its bytes.
hex_encode_str(str) == hex_encode([i \in DOMAIN str |-> AsciiByte(str[i])])

\* OpReturn::from_string: "panicked" when from_hex(..).unwrap() fails.
OpReturn_from_string(hex) ==
    LET stripped == unwrap_or(strip_prefix_0x(hex), hex)
        bytes == from_hex(stripped)
    IN  IF bytes = None
        THEN [panicked |-> TRUE, result |-> Err("invalid hex")]
        ELSE IF Len(bytes[1]) >= 2 /\ bytes[1][1] = <<"6", "a">>
        THEN [panicked |-> FALSE,
              result |-> Ok(hex_encode(SubSeq(bytes[1], 3, Len(bytes[1]))))]
        ELSE [panicked |-> FALSE, result |-> Err("not an OP_RETURN")]

\* A variant of encoded_pattern that reads every pattern as hex.
encoded_pattern_always_hex(pattern) ==
    to_lowercase(unwrap_or(strip_prefix_0x(pattern), pattern))

\* encoded_pattern
encoded_pattern(pattern) ==
    IF str_starts_with(pattern, <<"0", "x">>)
    THEN to_lowercase(strip_prefix_0x(pattern)[1])
    ELSE hex_encode_str(pattern)

\* MatchingRule
MatchingRule(kind, pattern) == [kind |-> kind, pattern |-> pattern]
rule_matches(rule, opret) ==
    CASE rule.kind = "starts_with" -> str_starts_with(opret, encoded_pattern(rule.pattern))
      [] rule.kind = "ends_with" -> str_ends_with(opret, encoded_pattern(rule.pattern))
      [] rule.kind = "equals" -> opret = encoded_pattern(rule.pattern)

\* The Outputs(OpReturn(rule)) arm: the outputs are tried in order from the
\* i-th on; an output that is no OP_RETURN is skipped.
RECURSIVE evaluate_op_return(_, _, _)
evaluate_op_return(rule, outputs, i) ==
    IF i > Len(outputs)
    THEN "no_match"
    ELSE LET opret == OpReturn_from_string(outputs[i].script_pubkey)
         IN  IF opret.panicked
             THEN "panicked"
             ELSE IF opret.result.ok /\ rule_matches(rule, opret.result.value)
             THEN "match"
             ELSE evaluate_op_return(rule, outputs, i + 1)

\* Address::from_str followed by assume_checked, on the addresses of the
\* model: a pay-to-pubkey-hash, a pay-to-script-hash and two segwit
\* addresses decode to their payload, any other string to an error.
Address_from_str(encoded_address) ==
    CASE encoded_address = "1pkh" -> Ok([payload |-> "PubkeyHash", hash |-> <<"a", "a">>])
      [] encoded_address = "3sh" -> Ok([payload |-> "ScriptHash", hash |-> <<"a", "a">>])
      [] encoded_address = "bc1qwpkh" ->
            Ok([payload |-> "WitnessProgram", hash |-> <<"a", "a">>])
      [] encoded_address = "bc1qwsh" ->
            Ok([payload |-> "WitnessProgram", hash |-> <<"a", "a", "b", "b">>])
      [] OTHER -> Err("invalid address")

\* hex::encode(address.script_pubkey().as_bytes()): the canonical script of
\* the payload (the hash stands for its 20 or 32 bytes).
address_bytes(address) ==
    CASE address.payload = "PubkeyHash" ->
            <<"7", "6", "a", "9", "1", "4">> \o address.hash \o <<"8", "8", "a", "c">>
      [] address.payload = "ScriptHash" ->
            <<"a", "9", "1", "4">> \o address.hash \o <<"8", "7">>
      [] address.payload = "WitnessProgram" ->
            <<"0", "0">> \o (IF Len(address.hash) = 2 THEN <<"1", "4">> ELSE <<"2", "0">>)
                \o address.hash

\* `output.script_pubkey[2..] == bytes` for some output.
some_output_equals(outputs, bytes) ==
    \E i \in DOMAIN outputs :
        SubSeq(outputs[i].script_pubkey, 3, Len(outputs[i].script_pubkey)) = bytes

\* The Outputs(P2pkh | P2sh) arm and the Outputs(P2wpkh | P2wsh) arm: only
\* the second looks at the payload of the decoded address.
evaluate_outputs_address(rule, encoded_address, outputs) ==
    LET address == Address_from_str(encoded_address)
    IN  IF ~address.ok
        THEN "no_match"
        ELSE IF rule \in {"p2wpkh", "p2wsh"} /\ address.value.payload # "WitnessProgram"
        THEN "no_match"
        ELSE Outcome(some_output_equals(outputs, address_bytes(address.value)))

\* Descriptor::parse_descriptor and has_wildcard, on the expressions of the
\* model: a ranged descriptor, a descriptor of one key, and text that is no
\* descriptor.
parse_descriptor(expression) ==
    CASE expression = "wpkh(xpub/*)" -> Ok([has_wildcard |-> TRUE])
      [] expression = "wpkh(key)" -> Ok([has_wildcard |-> FALSE])
      [] OTHER -> Err("invalid descriptor")

\* hex::encode(desc.derived_descriptor(&ver, i).script_pubkey().as_bytes()):
\* a script per child index for a wildcard, one script otherwise.
derived_script_pubkey(desc, i) ==
    IF desc.has_wildcard
    THEN <<"0", "0", "1", "4", "c", <<"0", "1", "2", "3", "4", "5", "6", "7">>[i + 1]>>
    ELSE <<"0", "0", "1", "4", "d", "d">>

\* A variant of the Descriptor arm whose default range includes index 5.
evaluate_outputs_descriptor_default_inclusive(expression, range, outputs) ==
    LET desc == parse_descriptor(expression)
        r == IF desc.value.has_wildcard THEN unwrap_or(range, <<0, 6>>) ELSE <<0, 1>>
    IN  IF ~desc.ok
        THEN "panicked"
        ELSE Outcome(\E i \in r[1]..(r[2] - 1) :
                        some_output_equals(outputs, derived_script_pubkey(desc.value, i)))

\* The Outputs(Descriptor) arm: "panicked" when parse_descriptor(..).unwrap()
\* fails; the loops return on the first index and output that agree.
evaluate_outputs_descriptor(expression, range, outputs) ==
    LET desc == parse_descriptor(expression)
        r == IF desc.value.has_wildcard THEN unwrap_or(range, <<0, 5>>) ELSE <<0, 1>>
    IN  IF ~desc.ok
        THEN "panicked"
        ELSE Outcome(\E i \in r[1]..(r[2] - 1) :
                        some_output_equals(outputs, derived_script_pubkey(desc.value, i)))

\* A variant of the Inputs(Txid) arm that looks for the txid and for the
\* vout on any input.
evaluate_inputs_txid_any_input(predicate, inputs) ==
    Outcome(/\ \E i \in DOMAIN inputs : inputs[i].previous_output.txid.hash = predicate.txid
            /\ \E i \in DOMAIN inputs : inputs[i].previous_output.vout = predicate.vout)

\* The Inputs(Txid) arm.
evaluate_inputs_txid(predicate, inputs) ==
    Outcome(\E i \in DOMAIN inputs :
                /\ inputs[i].previous_output.txid.hash = predicate.txid
                /\ inputs[i].previous_output.vout = predicate.vout)

evaluate_transaction_predicate(self, tx, iter) ==
    CASE self.scope = "block" -> "match"
      [] self.scope = "txid" -> Outcome(tx.transaction_identifier.hash = self.equals)
      [] self.scope = "inputs" /\ self.rule = "txid" ->
            evaluate_inputs_txid(self, tx.metadata.inputs)
      [] self.scope = "inputs" /\ self.rule = "witness_script" -> "unimplemented"
      [] self.scope = "outputs" /\ self.rule = "op_return" ->
            evaluate_op_return(self.matching_rule, tx.metadata.outputs, 1)
      [] self.scope = "outputs" /\ self.rule \in {"p2pkh", "p2sh", "p2wpkh", "p2wsh"} ->
            evaluate_outputs_address(self.rule, self.encoded_address, tx.metadata.outputs)
      [] self.scope = "outputs" /\ self.rule = "descriptor" ->
            evaluate_outputs_descriptor(self.expression, self.range, tx.metadata.outputs)
      [] self.scope = "stacks_protocol" -> evaluate_stacks_protocol(self.operation, tx)
      [] self.scope = "ordinals_protocol" ->
            evaluate_inscription_feed(self.meta_protocols, tx, iter)

----------------------------------------------------------------------------
(* evaluate_bitcoin_chainhooks_on_chain_event.                             *)
(* The running state of one call: the three values it returns, the apply   *)
(* and rollback vectors of the predicate being processed, and whether a    *)
(* predicate evaluation panicked (the call then returns nothing).          *)

NewEvaluation ==
    [triggered_predicates |-> <<>>,
     evaluated_predicates |-> EmptyMap,
     expired_predicates |-> EmptyMap,
     apply |-> <<>>,
     rollback |-> <<>>,
     panicked |-> FALSE]

\* Mutant of collect_hits: a hit is put in front of the earlier hits.
RECURSIVE collect_hits_prepending(_, _, _, _)
collect_hits_prepending(chainhook, iter, transactions, hits) ==
    IF transactions = <<>>
    THEN hits
    ELSE collect_hits_prepending(chainhook, iter, Tail(transactions),
            IF evaluate_transaction_predicate(chainhook.predicate, Head(transactions), iter)
                 = "match"
            THEN <<Head(transactions)>> \o hits
            ELSE hits)

\* for tx in block.transactions.iter() { if ... { hits.push(tx) } }
RECURSIVE collect_hits(_, _, _, _)
collect_hits(chainhook, iter, transactions, hits) ==
    IF transactions = <<>>
    THEN hits
    ELSE collect_hits(chainhook, iter, Tail(transactions),
            IF evaluate_transaction_predicate(chainhook.predicate, Head(transactions), iter)
                 = "match"
            THEN Append(hits, Head(transactions))
            ELSE hits)

\* Some transaction of the block makes the predicate evaluation panic.
hits_panic(chainhook, iter, transactions) ==
    \E i \in DOMAIN transactions :
        evaluate_transaction_predicate(chainhook.predicate, transactions[i], iter)
            = "unimplemented"

\* Mutant of evaluate_block: the block at end_block itself counts as expired.
evaluate_block_strict_end(ev, chainhook, iter, block, into, tracked) ==
    LET end_block == unwrap_or(chainhook.end_block, U64_MAX)
        ev1 == IF tracked
               THEN [ev EXCEPT !.evaluated_predicates =
                        MapInsert(@, chainhook.uuid, block.block_identifier)]
               ELSE ev
    IN  IF end_block > block.block_identifier.index
        THEN IF hits_panic(chainhook, iter, block.transactions)
             THEN [ev1 EXCEPT !.panicked = TRUE]
             ELSE LET hits == collect_hits(chainhook, iter, block.transactions, <<>>)
                  IN  IF Len(hits) > 0
                      THEN [ev1 EXCEPT ![into] = Append(@, [hits |-> hits, block |-> block])]
                      ELSE ev1
        ELSE [ev1 EXCEPT !.expired_predicates =
                 MapInsert(@, chainhook.uuid, block.block_identifier)]

\* The body of one `for block in ...` loop: into is "apply" or "rollback",
\* tracked says whether the loop starts with evaluated_predicates.insert.
evaluate_block(ev, chainhook, iter, block, into, tracked) ==
    LET end_block == unwrap_or(chainhook.end_block, U64_MAX)
        ev1 == IF tracked
               THEN [ev EXCEPT !.evaluated_predicates =
                        MapInsert(@, chainhook.uuid, block.block_identifier)]
               ELSE ev
    IN  IF end_block >= block.block_identifier.index
        THEN IF hits_panic(chainhook, iter, block.transactions)
             THEN [ev1 EXCEPT !.panicked = TRUE]
             ELSE LET hits == collect_hits(chainhook, iter, block.transactions, <<>>)
                  IN  IF Len(hits) > 0
                      THEN [ev1 EXCEPT ![into] = Append(@, [hits |-> hits, block |-> block])]
                      ELSE ev1
        ELSE [ev1 EXCEPT !.expired_predicates =
                 MapInsert(@, chainhook.uuid, block.block_identifier)]

RECURSIVE evaluate_blocks(_, _, _, _, _, _)
evaluate_blocks(ev, chainhook, iter, blocks, into, tracked) ==
    IF blocks = <<>> \/ ev.panicked
    THEN ev
    ELSE evaluate_blocks(evaluate_block(ev, chainhook, iter, Head(blocks), into, tracked),
                         chainhook, iter, Tail(blocks), into, tracked)

\* Mutant of push_trigger: a trigger is pushed for every predicate.
push_trigger_always(ev, chainhook) ==
    IF ev.panicked
    THEN ev
    ELSE [ev EXCEPT
            !.triggered_predicates =
                Append(@, [chainhook |-> chainhook.uuid,
                           apply |-> ev.apply,
                           rollback |-> ev.rollback]),
            !.apply = <<>>,
            !.rollback = <<>>]

\* if !apply.is_empty() || !rollback.is_empty() { triggered_predicates.push(..) }
push_trigger(ev, chainhook) ==
    IF ev.panicked
    THEN ev
    ELSE [ev EXCEPT
            !.triggered_predicates =
                IF ev.apply # <<>> \/ ev.rollback # <<>>
                THEN Append(@, [chainhook |-> chainhook.uuid,
                                apply |-> ev.apply,
                                rollback |-> ev.rollback])
                ELSE @,
            !.apply = <<>>,
            !.rollback = <<>>]

\* Mutant of evaluate_chainhook: the rollback loop of the Reorg arm records
\* its blocks in evaluated_predicates too.
evaluate_chainhook_tracking_rollback(ev, event, chainhook, iter) ==
    IF event.kind = "ChainUpdatedWithBlocks"
    THEN push_trigger(
            evaluate_blocks(ev, chainhook, iter, event.new_blocks, "apply", TRUE),
            chainhook)
    ELSE push_trigger(
            evaluate_blocks(
                evaluate_blocks(ev, chainhook, iter, event.blocks_to_rollback,
                                "rollback", TRUE),
                chainhook, iter, event.blocks_to_apply, "apply", TRUE),
            chainhook)

\* The body of `for chainhook in active_chainhooks.iter()` of either arm.
evaluate_chainhook(ev, event, chainhook, iter) ==
    IF event.kind = "ChainUpdatedWithBlocks"
    THEN push_trigger(
            evaluate_blocks(ev, chainhook, iter, event.new_blocks, "apply", TRUE),
            chainhook)
    ELSE push_trigger(
            evaluate_blocks(
                evaluate_blocks(ev, chainhook, iter, event.blocks_to_rollback,
                                "rollback", FALSE),
                chainhook, iter, event.blocks_to_apply, "apply", TRUE),
            chainhook)

RECURSIVE evaluate_chainhooks(_, _, _, _, _)
evaluate_chainhooks(ev, event, chainhooks, iters, i) ==
    IF i > Len(chainhooks) \/ ev.panicked
    THEN ev
    ELSE evaluate_chainhooks(evaluate_chainhook(ev, event, chainhooks[i], iters[i]),
                             event, chainhooks, iters, i + 1)

\* What one call returns: the three values, or a panic.  iters[i] is the
\* iteration order of the meta_protocols set of the i-th predicate.
evaluate_bitcoin_chainhooks_on_chain_event(event, chainhooks, iters) ==
    LET ev == evaluate_chainhooks(NewEvaluation, event, chainhooks, iters, 1)
    IN  [panicked |-> ev.panicked,
         triggered_predicates |-> IF ev.panicked THEN <<>> ELSE ev.triggered_predicates,
         evaluated_predicates |-> IF ev.panicked THEN EmptyMap ELSE ev.evaluated_predicates,
         expired_predicates |-> IF ev.panicked THEN EmptyMap ELSE ev.expired_predicates,
         iters |-> iters]

\* The iteration orders one call can meet, one per predicate of the list.
CallIterationOrders(chainhooks) ==
    { its \in [DOMAIN chainhooks -> UNION { PredicateIterationOrders(p) : p \in Predicates }] :
        \A i \in DOMAIN chainhooks :
            its[i] \in PredicateIterationOrders(chainhooks[i].predicate) }

NoResult ==
    [panicked |-> FALSE, triggered_predicates |-> <<>>,
     evaluated_predicates |-> EmptyMap, expired_predicates |-> EmptyMap, iters |-> <<>>]

----------------------------------------------------------------------------
(* The status store (service/mod.rs): the status field of one predicate    *)
(* key, and the merge operations that read it and write it back.           *)

\* Largest value of number_of_blocks_evaluated / number_of_times_triggered.
MaxCounter == 3
\* Largest triggered_count / evaluated_count / number_of_new_blocks_evaluated.
MaxBatch == 2
\* Largest block height handed to a merge operation.
MaxStatusHeight == 2
\* Largest reading of the clock.
MaxClock == 2

\* PredicateStatus; NoStatus is the key without a (parseable) status field.
NoStatus == [kind |-> "None"]
StatusNew == [kind |-> "New"]
\* A stored payload serde_json cannot parse as a PredicateStatus.
StatusUnparseable == [kind |-> "Unparseable"]
StatusInterrupted == [kind |-> "Interrupted"]
StatusScanning(to_scan, evaluated, triggered, last_occurrence, height) ==
    [kind |-> "Scanning",
     number_of_blocks_to_scan |-> to_scan,
     number_of_blocks_evaluated |-> evaluated,
     number_of_times_triggered |-> triggered,
     last_occurrence |-> last_occurrence,
     last_evaluated_block_height |-> height]
StatusStreaming(last_occurrence, last_evaluation, triggered, height, evaluated) ==
    [kind |-> "Streaming",
     last_occurrence |-> last_occurrence,
     last_evaluation |-> last_evaluation,
     number_of_times_triggered |-> triggered,
     last_evaluated_block_height |-> height,
     number_of_blocks_evaluated |-> evaluated]
StatusExpired(evaluated, triggered, last_occurrence, height) ==
    [kind |-> "Expired",
     number_of_blocks_evaluated |-> evaluated,
     number_of_times_triggered |-> triggered,
     last_occurrence |-> last_occurrence,
     last_evaluated_block_height |-> height]

\* What a merge yields when it reaches unreachable!(): nothing is stored.
Unreachable == [kind |-> "unreachable"]

\* StreamingDataType
Occurrence(last_triggered_height, triggered_count) ==
    [kind |-> "Occurrence", height |-> last_triggered_height, count |-> triggered_count]
Evaluation(last_evaluated_height, evaluated_count) ==
    [kind |-> "Evaluation", height |-> last_evaluated_height, count |-> evaluated_count]
FinishedScanning == [kind |-> "FinishedScanning", height |-> 0, count |-> 0]

\* Mutant of set_predicate_streaming_status: an Occurrence does not count its
\* blocks as evaluated.
set_predicate_streaming_status_occurrence_not_evaluated(streaming_data_type, current_status, now) ==
    IF current_status.kind \in {"New", "Interrupted"}
    THEN Unreachable
    ELSE LET last_occurrence ==
                 IF current_status.kind = "None" THEN 0 ELSE current_status.last_occurrence
             number_of_blocks_evaluated ==
                 IF current_status.kind = "None" THEN 0
                 ELSE current_status.number_of_blocks_evaluated
             number_of_times_triggered ==
                 IF current_status.kind = "None" THEN 0
                 ELSE current_status.number_of_times_triggered
             last_evaluated_block_height ==
                 IF current_status.kind = "None" THEN 0
                 ELSE current_status.last_evaluated_block_height
         IN  CASE streaming_data_type.kind = "Occurrence" ->
                    StatusStreaming(now, now,
                                    number_of_times_triggered + streaming_data_type.count,
                                    streaming_data_type.height,
                                    number_of_blocks_evaluated)
               [] streaming_data_type.kind = "Evaluation" ->
                    StatusStreaming(last_occurrence, now,
                                    number_of_times_triggered,
                                    streaming_data_type.height,
                                    number_of_blocks_evaluated + streaming_data_type.count)
               [] streaming_data_type.kind = "FinishedScanning" ->
                    StatusStreaming(last_occurrence, now,
                                    number_of_times_triggered,
                                    last_evaluated_block_height,
                                    number_of_blocks_evaluated)

\* Mutant of set_predicate_streaming_status: an Evaluation keeps the highest
\* height seen.
set_predicate_streaming_status_keeping_max_height(streaming_data_type, current_status, now) ==
    IF current_status.kind \in {"New", "Interrupted"}
    THEN Unreachable
    ELSE LET last_occurrence ==
                 IF current_status.kind = "None" THEN 0 ELSE current_status.last_occurrence
             number_of_blocks_evaluated ==
                 IF current_status.kind = "None" THEN 0
                 ELSE current_status.number_of_blocks_evaluated
             number_of_times_triggered ==
                 IF current_status.kind = "None" THEN 0
                 ELSE current_status.number_of_times_triggered
             last_evaluated_block_height ==
                 IF current_status.kind = "None" THEN 0
                 ELSE current_status.last_evaluated_block_height
         IN  CASE streaming_data_type.kind = "Occurrence" ->
                    StatusStreaming(now, now,
                                    number_of_times_triggered + streaming_data_type.count,
                                    streaming_data_type.height,
                                    number_of_blocks_evaluated + streaming_data_type.count)
               [] streaming_data_type.kind = "Evaluation" ->
                    StatusStreaming(last_occurrence, now,
                                    number_of_times_triggered,
                                    IF streaming_data_type.height > last_evaluated_block_height
                                    THEN streaming_data_type.height
                                    ELSE last_evaluated_block_height,
                                    number_of_blocks_evaluated + streaming_data_type.count)
               [] streaming_data_type.kind = "FinishedScanning" ->
                    StatusStreaming(last_occurrence, now,
                                    number_of_times_triggered,
                                    last_evaluated_block_height,
                                    number_of_blocks_evaluated)

\* Mutant of set_predicate_streaming_status: FinishedScanning leaves
\* last_evaluation at the time of the last occurrence.
set_predicate_streaming_status_stale_evaluation(streaming_data_type, current_status, now) ==
    IF current_status.kind \in {"New", "Interrupted"}
    THEN Unreachable
    ELSE LET last_occurrence ==
                 IF current_status.kind = "None" THEN 0 ELSE current_status.last_occurrence
             number_of_blocks_evaluated ==
                 IF current_status.kind = "None" THEN 0
                 ELSE current_status.number_of_blocks_evaluated
             number_of_times_triggered ==
                 IF current_status.kind = "None" THEN 0
                 ELSE current_status.number_of_times_triggered
             last_evaluated_block_height ==
                 IF current_status.kind = "None" THEN 0
                 ELSE current_status.last_evaluated_block_height
         IN  CASE streaming_data_type.kind = "Occurrence" ->
                    StatusStreaming(now, now,
                                    number_of_times_triggered + streaming_data_type.count,
                                    streaming_data_type.height,
                                    number_of_blocks_evaluated + streaming_data_type.count)
               [] streaming_data_type.kind = "Evaluation" ->
                    StatusStreaming(last_occurrence, now,
                                    number_of_times_triggered,
                                    streaming_data_type.height,
                                    number_of_blocks_evaluated + streaming_data_type.count)
               [] streaming_data_type.kind = "FinishedScanning" ->
                    StatusStreaming(last_occurrence, last_occurrence,
                                    number_of_times_triggered,
                                    last_evaluated_block_height,
                                    number_of_blocks_evaluated)

\* Mutant of set_predicate_streaming_status: FinishedScanning starts the
\* streaming counters afresh.
set_predicate_streaming_status_restarting_counters(streaming_data_type, current_status, now) ==
    IF current_status.kind \in {"New", "Interrupted"}
    THEN Unreachable
    ELSE LET last_occurrence ==
                 IF current_status.kind = "None" THEN 0 ELSE current_status.last_occurrence
             number_of_blocks_evaluated ==
                 IF current_status.kind = "None" THEN 0
                 ELSE current_status.number_of_blocks_evaluated
             number_of_times_triggered ==
                 IF current_status.kind = "None" THEN 0
                 ELSE current_status.number_of_times_triggered
             last_evaluated_block_height ==
                 IF current_status.kind = "None" THEN 0
                 ELSE current_status.last_evaluated_block_height
         IN  CASE streaming_data_type.kind = "Occurrence" ->
                    StatusStreaming(now, now,
                                    number_of_times_triggered + streaming_data_type.count,
                                    streaming_data_type.height,
                                    number_of_blocks_evaluated + streaming_data_type.count)
               [] streaming_data_type.kind = "Evaluation" ->
                    StatusStreaming(last_occurrence, now,
                                    number_of_times_triggered,
                                    streaming_data_type.height,
                                    number_of_blocks_evaluated + streaming_data_type.count)
               [] streaming_data_type.kind = "FinishedScanning" ->
                    StatusStreaming(last_occurrence, now, 0,
                                    last_evaluated_block_height, 0)

\* The status set_predicate_streaming_status stores, given the status it read.
set_predicate_streaming_status(streaming_data_type, current_status, now) ==
    IF current_status.kind \in {"New", "Interrupted"}
    THEN Unreachable
    ELSE LET last_occurrence ==
                 IF current_status.kind = "None" THEN 0 ELSE current_status.last_occurrence
             number_of_blocks_evaluated ==
                 IF current_status.kind = "None" THEN 0
                 ELSE current_status.number_of_blocks_evaluated
             number_of_times_triggered ==
                 IF current_status.kind = "None" THEN 0
                 ELSE current_status.number_of_times_triggered
             last_evaluated_block_height ==
                 IF current_status.kind = "None" THEN 0
                 ELSE current_status.last_evaluated_block_height
         IN  CASE streaming_data_type.kind = "Occurrence" ->
                    StatusStreaming(now, now,
                                    number_of_times_triggered + streaming_data_type.count,
                                    streaming_data_type.height,
                                    number_of_blocks_evaluated + streaming_data_type.count)
               [] streaming_data_type.kind = "Evaluation" ->
                    StatusStreaming(last_occurrence, now,
                                    number_of_times_triggered,
                                    streaming_data_type.height,
                                    number_of_blocks_evaluated + streaming_data_type.count)
               [] streaming_data_type.kind = "FinishedScanning" ->
                    StatusStreaming(last_occurrence, now,
                                    number_of_times_triggered,
                                    last_evaluated_block_height,
                                    number_of_blocks_evaluated)

\* Mutant of set_predicate_scanning_status: a Streaming status is accepted
\* like a Scanning one.
set_predicate_scanning_status_from_streaming(to_scan, evaluated, triggered, height, current_status, now) ==
    IF current_status.kind = "Interrupted"
    THEN Unreachable
    ELSE LET last_occurrence ==
                 CASE current_status.kind \in {"Scanning", "Expired", "Streaming"} ->
                        IF triggered > current_status.number_of_times_triggered
                        THEN now
                        ELSE current_status.last_occurrence
                   [] current_status.kind = "New" ->
                        IF triggered > 0 THEN now ELSE 0
                   [] current_status.kind = "None" -> 0
         IN  StatusScanning(to_scan, evaluated, triggered, last_occurrence, height)

\* Mutant of set_predicate_scanning_status: an update never stamps
\* last_occurrence, it carries the one it read.
set_predicate_scanning_status_never_stamping(to_scan, evaluated, triggered, height, current_status, now) ==
    IF current_status.kind \in {"Streaming", "Interrupted"}
    THEN Unreachable
    ELSE LET last_occurrence ==
                 CASE current_status.kind \in {"Scanning", "Expired"} ->
                        current_status.last_occurrence
                   [] current_status.kind = "New" -> 0
                   [] current_status.kind = "None" -> 0
         IN  StatusScanning(to_scan, evaluated, triggered, last_occurrence, height)

\* The status set_predicate_scanning_status stores, given the status it read.
set_predicate_scanning_status(to_scan, evaluated, triggered, height, current_status, now) ==
    IF current_status.kind \in {"Streaming", "Interrupted"}
    THEN Unreachable
    ELSE LET last_occurrence ==
                 CASE current_status.kind \in {"Scanning", "Expired"} ->
                        IF triggered > current_status.number_of_times_triggered
                        THEN now
                        ELSE current_status.last_occurrence
                   [] current_status.kind = "New" ->
                        IF triggered > 0 THEN now ELSE 0
                   [] current_status.kind = "None" -> 0
         IN  StatusScanning(to_scan, evaluated, triggered, last_occurrence, height)

\* Mutant of set_expired_status: the evaluated blocks of the previous status
\* are dropped instead of added to.
set_expired_status_dropping_count(new_blocks_evaluated, height, current_status) ==
    IF current_status.kind = "Interrupted"
    THEN Unreachable
    ELSE IF current_status.kind \in {"New", "None"}
         THEN StatusExpired(0, 0, 0, height)
         ELSE StatusExpired(new_blocks_evaluated,
                            current_status.number_of_times_triggered,
                            current_status.last_occurrence,
                            height)

\* The status set_expired_status stores, given the status it read.
set_expired_status(new_blocks_evaluated, height, current_status) ==
    IF current_status.kind = "Interrupted"
    THEN Unreachable
    ELSE IF current_status.kind \in {"New", "None"}
         THEN StatusExpired(0, 0, 0, height)
         ELSE StatusExpired(
                current_status.number_of_blocks_evaluated + new_blocks_evaluated,
                current_status.number_of_times_triggered,
                current_status.last_occurrence,
                height)

\* Mutant of retrieve_predicate_status: a payload that cannot be parsed is
\* handed on as an Interrupted status instead of None.
retrieve_predicate_status_failing_on_parse(hget) ==
    CASE hget.kind = "Err" -> NoStatus
      [] hget.kind = "Unparseable" -> StatusInterrupted
      [] OTHER -> hget

\* retrieve_predicate_status: None when the hget fails, when the key has no
\* status field and when the payload cannot be parsed; the parsed status
\* otherwise.
retrieve_predicate_status(hget) ==
    CASE hget.kind = "Err" -> NoStatus
      [] hget.kind = "Unparseable" -> NoStatus
      [] OTHER -> hget

\* The arguments of a merge operation and the clock reading it made (0 for
\* what the operation does not take).
MergeInput(now, height, count) ==
    [now |-> now, height |-> height, count |-> count,
     number_of_blocks_to_scan |-> 0, number_of_blocks_evaluated |-> 0,
     number_of_times_triggered |-> 0]
ScanningInput(now, to_scan, evaluated, triggered, height) ==
    [now |-> now, height |-> height, count |-> 0,
     number_of_blocks_to_scan |-> to_scan, number_of_blocks_evaluated |-> evaluated,
     number_of_times_triggered |-> triggered]
NoInput == MergeInput(0, 0, 0)

\* The status carries the running counters.
HasCounters(s) == s.kind \in {"Scanning", "Streaming", "Expired"}

\* The counters of the model stay within their bound.
WithinCounterBound(s) ==
    HasCounters(s) =>
        /\ s.number_of_blocks_evaluated <= MaxCounter
        /\ s.number_of_times_triggered <= MaxCounter

\* update_predicate_status at the end of a merge: the merged status is stored,
\* or nothing is when the merge panicked.
StoreMerged(op, input, merged) ==
    /\ WithinCounterBound(merged)
    /\ prev_status' = status
    /\ last_op' = op
    /\ last_input' = input
    /\ IF merged = Unreachable
       THEN /\ status' = status
            /\ thread_aborted' = TRUE
       ELSE /\ status' = merged
            /\ UNCHANGED thread_aborted

\* SystemTime::now(): the clock never runs backwards between two readings.
ReadClock(now) ==
    /\ now \in now_ms..MaxClock
    /\ now_ms' = now

StatusIdle ==
    /\ status = NoStatus
    /\ prev_status = NoStatus
    /\ last_op = "none"
    /\ last_input = NoInput
    /\ now_ms = 1
    /\ thread_aborted = FALSE

EvaluatorIdle ==
    /\ chain_event = ChainUpdatedWithBlocks(<<>>)
    /\ active_chainhooks = <<>>
    /\ pc = "idle"
    /\ first = NoResult
    /\ second = NoResult

\* No call of download_stacks_dataset_if_required is modelled.
\* No download_tsv_file is modelled past its sha256 file.
DownloadIdle ==
    /\ downloader = [pc |-> "idle", status |-> 200, stream |-> <<>>, tx |-> FALSE,
                     sent |-> <<>>]
    /\ chunk_channel = None
    /\ decoder_thread = [pc |-> "idle", rx |-> FALSE, current |-> <<>>, position |-> 0,
                         content |-> <<>>, eof |-> FALSE]

ArchiveIdle ==
    /\ DownloadIdle
    /\ local_sha_file = None
    /\ local_tsv_file = None
    /\ remote_sha_file = <<>>
    /\ config = [is_initial_ingestion_required |-> FALSE,
                 rely_on_remote_stacks_tsv |-> FALSE,
                 should_download_remote_stacks_tsv |-> FALSE,
                 event_sources |-> <<>>]
    /\ archive_pc = "idle"
    /\ archive_calls = <<>>

\* No call of a function of chainhooks/bitcoin/mod.rs is modelled.
CallIdle ==
    /\ fn_call = [fn |-> "none"]
    /\ fn_returned = None

----------------------------------------------------------------------------
(* Service::run: the observer events, the evaluation reports and the scan  *)
(* operations of one predicate.                                            *)

\* ChainhookSpecification::Stacks(..) / ChainhookSpecification::Bitcoin(..)
ChainKinds == {"Stacks", "Bitcoin"}
PredicateSpec(chain) == [uuid |-> UuidAt(1), chain |-> chain]

\* The block identifiers a report can list; BTreeSet orders them by index.
ReportBlockIds == { [index |-> i, hash |-> "main"] : i \in 1..MaxStatusHeight }
BTreeLast(blocks_ids) == CHOOSE b \in blocks_ids : \A c \in blocks_ids : c.index <= b.index

\* PredicateEvaluationReport: the entries of the three maps for the uuid of
\* the predicate (an empty set stands for "no entry").
Reports ==
    [predicates_triggered : SUBSET ReportBlockIds,
     predicates_evaluated : SUBSET ReportBlockIds,
     predicates_expired : SUBSET ReportBlockIds]
EmptyReport ==
    [predicates_triggered |-> {}, predicates_evaluated |-> {}, predicates_expired |-> {}]

\* One status-store call of update_streaming_status_from_report: the status
\* it leaves, and whether it panicked (no later call runs then).
ApplyMerge(acc, merged) ==
    IF merged = Unreachable
    THEN [status |-> acc.status, aborted |-> TRUE]
    ELSE [status |-> merged, aborted |-> FALSE]

\* update_streaming_status_from_report: an Occurrence for the triggered
\* blocks, an Evaluation for the evaluated blocks that did not trigger, a
\* set_expired for the expired blocks; now1 and now2 are the clock readings
\* of the two set_predicate_streaming_status calls.
update_streaming_status_from_report(report, stored, now1, now2) ==
    LET start == [status |-> stored, aborted |-> FALSE]
        triggered == report.predicates_triggered
        after_triggered ==
            IF triggered = {} THEN start
            ELSE ApplyMerge(start,
                    set_predicate_streaming_status(
                        Occurrence(BTreeLast(triggered).index, Cardinality(triggered)),
                        retrieve_predicate_status(start.status), now1))
        blocks_ids == report.predicates_evaluated \ triggered
        after_evaluated ==
            IF blocks_ids = {} \/ after_triggered.aborted THEN after_triggered
            ELSE ApplyMerge(after_triggered,
                    set_predicate_streaming_status(
                        Evaluation(BTreeLast(blocks_ids).index, Cardinality(blocks_ids)),
                        retrieve_predicate_status(after_triggered.status), now2))
        expired == report.predicates_expired
    IN  IF expired = {} \/ after_evaluated.aborted THEN after_evaluated
        ELSE ApplyMerge(after_evaluated,
                set_expired_status(Cardinality(expired), BTreeLast(expired).index,
                                   retrieve_predicate_status(after_evaluated.status)))

\* What a handler of Service::run was handed and what it did, in program
\* order: the outcome of the connection it opened, the report of a chain
\* event, the clock readings of its merges, its writes and sends.
EventInput(event, conn_ok, report, now1, now2, effects) ==
    [event |-> event, conn_ok |-> conn_ok, report |-> report,
     now1 |-> now1, now2 |-> now2, effects |-> effects]

\* No scan is running.
NoScan == [phase |-> "idle", number_of_blocks_to_scan |-> 0,
           number_of_blocks_evaluated |-> 0, number_of_times_triggered |-> 0,
           last_evaluated_block_height |-> 0, last_written |-> NoStatus]

ServiceIdle ==
    /\ http_api = "Off"
    /\ predicate_spec = PredicateSpec("Bitcoin")
    /\ stored_specification = None
    /\ service_pc = "stopped"
    /\ stacks_event = 0
    /\ stacks_scan_op_tx = <<>>
    /\ bitcoin_scan_op_tx = <<>>
    /\ scan = NoScan
    /\ enable_pending = 0
    /\ observer_predicate = "absent"
    /\ event_budget = 0
    /\ registered_events = 0
    /\ scan_ops_sent = [chain \in ChainKinds |-> 0]

----------------------------------------------------------------------------
(* SpecEvaluator *)

InitEvaluator ==
    /\ chain_event \in ChainEvents
    /\ active_chainhooks \in ChainhookLists
    /\ pc = "ready"
    /\ first = NoResult
    /\ second = NoResult
    /\ StatusIdle
    /\ ServiceIdle
    /\ ArchiveIdle
    /\ CallIdle

\* A call with a ChainUpdatedWithBlocks event.
EvaluateBlocks ==
    /\ pc = "ready"
    /\ chain_event.kind = "ChainUpdatedWithBlocks"
    /\ \E iters \in CallIterationOrders(active_chainhooks) :
          first' = evaluate_bitcoin_chainhooks_on_chain_event(
                        chain_event, active_chainhooks, iters)
    /\ pc' = "evaluated"
    /\ UNCHANGED <<chain_event, active_chainhooks, second>>
    /\ UNCHANGED <<statusVars, serviceVars, archiveVars, callVars>>

\* A call with a ChainUpdatedWithReorg event.
EvaluateReorg ==
    /\ pc = "ready"
    /\ chain_event.kind = "ChainUpdatedWithReorg"
    /\ \E iters \in CallIterationOrders(active_chainhooks) :
          first' = evaluate_bitcoin_chainhooks_on_chain_event(
                        chain_event, active_chainhooks, iters)
    /\ pc' = "evaluated"
    /\ UNCHANGED <<chain_event, active_chainhooks, second>>
    /\ UNCHANGED <<statusVars, serviceVars, archiveVars, callVars>>

\* A second call with the same event and an equal predicate list.  The
\* iteration order of a HashSet is a property of the set instance, not of
\* its value: an equal list (the predicates reloaded from storage, say)
\* may iterate its sets in another order.
EvaluateAgain ==
    /\ pc = "evaluated"
    /\ \E iters \in CallIterationOrders(active_chainhooks) :
          second' = evaluate_bitcoin_chainhooks_on_chain_event(
                        chain_event, active_chainhooks, iters)
    /\ pc' = "reevaluated"
    /\ UNCHANGED <<chain_event, active_chainhooks, first>>
    /\ UNCHANGED <<statusVars, serviceVars, archiveVars, callVars>>

NextEvaluator == EvaluateBlocks \/ EvaluateReorg \/ EvaluateAgain

SpecEvaluator == InitEvaluator /\ [][NextEvaluator]_vars

----------------------------------------------------------------------------
(* SpecStatus *)

\* The key holds no status field, or a payload that is not a PredicateStatus
\* (one written under another schema).
InitStatus ==
    /\ status \in {NoStatus, StatusUnparseable}
    /\ prev_status = NoStatus
    /\ last_op = "none"
    /\ last_input = NoInput
    /\ now_ms = 1
    /\ thread_aborted = FALSE
    /\ EvaluatorIdle
    /\ ServiceIdle
    /\ ArchiveIdle
    /\ CallIdle

\* Service::run, PredicateRegistered: the status of the key is set to New.
Register ==
    /\ status' = StatusNew
    /\ prev_status' = status
    /\ last_op' = "register"
    /\ last_input' = NoInput
    /\ UNCHANGED <<now_ms, thread_aborted>>
    /\ UNCHANGED <<evaluatorVars, serviceVars, archiveVars, callVars>>

\* Service::run, PredicateDeregistered: the key is deleted.
Deregister ==
    /\ status # NoStatus
    /\ status' = NoStatus
    /\ prev_status' = status
    /\ last_op' = "deregister"
    /\ last_input' = NoInput
    /\ UNCHANGED <<now_ms, thread_aborted>>
    /\ UNCHANGED <<evaluatorVars, serviceVars, archiveVars, callVars>>

\* A scan that fails stores Interrupted(reason).
Interrupt ==
    /\ status.kind \in {"New", "Scanning"}
    /\ status' = StatusInterrupted
    /\ prev_status' = status
    /\ last_op' = "interrupt"
    /\ last_input' = NoInput
    /\ UNCHANGED <<now_ms, thread_aborted>>
    /\ UNCHANGED <<evaluatorVars, serviceVars, archiveVars, callVars>>

\* set_predicate_scanning_status, called by a scan worker with its running
\* counts.  The worker is an external collaborator: its counts are taken to
\* grow with the scan (triggered <= evaluated <= to_scan, none below what
\* the stored status already holds).
SetScanning ==
    \E now \in 1..MaxClock, to_scan \in 1..MaxCounter, evaluated \in 0..MaxCounter,
       triggered \in 0..MaxCounter, height \in 1..MaxStatusHeight :
        /\ ReadClock(now)
        /\ triggered <= evaluated
        /\ evaluated <= to_scan
        /\ HasCounters(status) =>
              /\ evaluated >= status.number_of_blocks_evaluated
              /\ triggered >= status.number_of_times_triggered
              /\ height >= status.last_evaluated_block_height
        /\ StoreMerged("set_scanning",
              ScanningInput(now, to_scan, evaluated, triggered, height),
              set_predicate_scanning_status(to_scan, evaluated, triggered, height,
                                            retrieve_predicate_status(status), now))
        /\ UNCHANGED <<evaluatorVars, serviceVars, archiveVars, callVars>>

\* set_predicate_streaming_status(Occurrence { .. })
SetStreamingOccurrence ==
    \E now \in 1..MaxClock, height \in 1..MaxStatusHeight, count \in 1..MaxBatch :
        /\ ReadClock(now)
        /\ StoreMerged("occurrence", MergeInput(now, height, count),
              set_predicate_streaming_status(Occurrence(height, count),
                                             retrieve_predicate_status(status), now))
        /\ UNCHANGED <<evaluatorVars, serviceVars, archiveVars, callVars>>

\* set_predicate_streaming_status(Evaluation { .. })
SetStreamingEvaluation ==
    \E now \in 1..MaxClock, height \in 1..MaxStatusHeight, count \in 1..MaxBatch :
        /\ ReadClock(now)
        /\ StoreMerged("evaluation", MergeInput(now, height, count),
              set_predicate_streaming_status(Evaluation(height, count),
                                             retrieve_predicate_status(status), now))
        /\ UNCHANGED <<evaluatorVars, serviceVars, archiveVars, callVars>>

\* set_predicate_streaming_status(FinishedScanning)
SetStreamingFinishedScanning ==
    \E now \in 1..MaxClock :
        /\ ReadClock(now)
        /\ StoreMerged("finished_scanning", MergeInput(now, 0, 0),
              set_predicate_streaming_status(FinishedScanning,
                                             retrieve_predicate_status(status), now))
        /\ UNCHANGED <<evaluatorVars, serviceVars, archiveVars, callVars>>

\* set_expired_status
SetExpired ==
    \E height \in 1..MaxStatusHeight, count \in 1..MaxBatch :
        /\ StoreMerged("set_expired", MergeInput(0, height, count),
              set_expired_status(count, height, retrieve_predicate_status(status)))
        /\ UNCHANGED now_ms
        /\ UNCHANGED <<evaluatorVars, serviceVars, archiveVars, callVars>>

NextStatus ==
    \/ Register
    \/ Deregister
    \/ Interrupt
    \/ SetScanning
    \/ SetStreamingOccurrence
    \/ SetStreamingEvaluation
    \/ SetStreamingFinishedScanning
    \/ SetExpired

SpecStatus == InitStatus /\ [][NextStatus]_vars

----------------------------------------------------------------------------
(* SpecService: the event loop of Service::run with one predicate, and the *)
(* scan runloop that takes its scan operations.                            *)

\* Every 32 blocks the Stacks archive is checked (stacks_event > 32).
ArchiveRefreshPeriod == 32

InitService ==
    /\ http_api \in {"On", "Off"}
    /\ predicate_spec \in { PredicateSpec(chain) : chain \in ChainKinds }
    /\ stored_specification = None
    /\ service_pc = "running"
    /\ stacks_event = 0
    /\ stacks_scan_op_tx = <<>>
    /\ bitcoin_scan_op_tx = <<>>
    /\ scan = NoScan
    /\ enable_pending = 0
    /\ observer_predicate = "absent"
    /\ event_budget = MaxEvents
    /\ registered_events = 0
    /\ scan_ops_sent = [chain \in ChainKinds |-> 0]
    /\ StatusIdle
    /\ EvaluatorIdle
    /\ ArchiveIdle
    /\ CallIdle

\* observer_event_rx.recv() hands the loop an event.
Delivered(kind, input) ==
    /\ service_pc = "running"
    /\ event_budget > 0
    /\ event_budget' = event_budget - 1
    /\ last_op' = kind
    /\ last_input' = input
    /\ prev_status' = status
    /\ UNCHANGED <<http_api, predicate_spec>>
    /\ UNCHANGED <<evaluatorVars, archiveVars, callVars>>

\* A merge of the event loop: the status is stored, or the loop's thread
\* panics on unreachable!().
LoopMerged(result) ==
    /\ WithinCounterBound(result.status)
    /\ status' = result.status
    /\ IF result.aborted
       THEN /\ thread_aborted' = TRUE
            /\ service_pc' = "panicked"
       ELSE UNCHANGED <<thread_aborted, service_pc>>

\* ObserverEvent::PredicateRegistered(spec)
HandlePredicateRegistered ==
    \E conn_ok \in BOOLEAN :
        LET stored == http_api = "On" /\ conn_ok
            skipped == http_api = "On" /\ ~conn_ok
            chain == predicate_spec.chain
            effects ==
                IF skipped THEN <<>>
                ELSE (IF stored THEN <<"update_predicate_spec", "update_predicate_status">>
                      ELSE <<>>) \o <<"send">>
        IN  /\ observer_predicate = "absent"
            /\ http_api = "Off" => conn_ok
            /\ Delivered("PredicateRegistered",
                         EventInput("", conn_ok, EmptyReport, 0, 0, effects))
            /\ observer_predicate' = "registered"
            /\ registered_events' = registered_events + 1
            /\ IF stored
               THEN /\ stored_specification' = Some(predicate_spec)
                    /\ status' = StatusNew
               ELSE UNCHANGED <<stored_specification, status>>
            /\ IF skipped
               THEN UNCHANGED <<stacks_scan_op_tx, bitcoin_scan_op_tx, scan_ops_sent>>
               ELSE /\ stacks_scan_op_tx' =
                          IF chain = "Stacks"
                          THEN Append(stacks_scan_op_tx, predicate_spec)
                          ELSE stacks_scan_op_tx
                    /\ bitcoin_scan_op_tx' =
                          IF chain = "Bitcoin"
                          THEN Append(bitcoin_scan_op_tx, predicate_spec)
                          ELSE bitcoin_scan_op_tx
                    /\ scan_ops_sent' = [scan_ops_sent EXCEPT ![chain] = @ + 1]
            /\ UNCHANGED <<now_ms, thread_aborted, service_pc, stacks_event, scan,
                           enable_pending>>

\* ObserverEvent::PredicateEnabled(spec)
HandlePredicateEnabled ==
    \E conn_ok \in BOOLEAN, now \in 1..MaxClock :
        LET stored == http_api = "On" /\ conn_ok
            effects ==
                IF stored THEN <<"update_predicate_spec", "set_predicate_streaming_status">>
                ELSE <<>>
        IN  /\ enable_pending > 0
            /\ http_api = "Off" => conn_ok
            /\ Delivered("PredicateEnabled",
                         EventInput("", conn_ok, EmptyReport, now, now, effects))
            /\ enable_pending' = enable_pending - 1
            /\ observer_predicate' =
                  IF observer_predicate = "registered" THEN "enabled"
                  ELSE observer_predicate
            /\ IF stored
               THEN /\ ReadClock(now)
                    /\ stored_specification' = Some(predicate_spec)
                    /\ LoopMerged(ApplyMerge([status |-> status, aborted |-> FALSE],
                            set_predicate_streaming_status(
                                FinishedScanning, retrieve_predicate_status(status), now)))
               ELSE /\ now = now_ms
                    /\ UNCHANGED <<now_ms, stored_specification, status, thread_aborted,
                                   service_pc>>
            /\ UNCHANGED <<stacks_event, stacks_scan_op_tx, bitcoin_scan_op_tx, scan,
                           registered_events, scan_ops_sent>>

\* ObserverEvent::PredicateDeregistered(spec)
HandlePredicateDeregistered ==
    \E conn_ok \in BOOLEAN :
        LET stored == http_api = "On" /\ conn_ok
        IN  /\ observer_predicate # "absent"
            /\ http_api = "Off" => conn_ok
            /\ Delivered("PredicateDeregistered",
                         EventInput("", conn_ok, EmptyReport, 0, 0,
                                    IF stored THEN <<"del">> ELSE <<>>))
            /\ observer_predicate' = "absent"
            /\ IF stored
               THEN /\ stored_specification' = None
                    /\ status' = NoStatus
               ELSE UNCHANGED <<stored_specification, status>>
            /\ UNCHANGED <<now_ms, thread_aborted, service_pc, stacks_event,
                           stacks_scan_op_tx, bitcoin_scan_op_tx, scan, enable_pending,
                           registered_events, scan_ops_sent>>

\* The reports a chain event of the given chain can carry: the observer
\* evaluates the predicate once it is enabled.
ReportsOf(chain) ==
    IF observer_predicate = "enabled" /\ predicate_spec.chain = chain
    THEN Reports
    ELSE {EmptyReport}

\* The clock readings of update_streaming_status_from_report: one per
\* set_predicate_streaming_status call it makes.
ReportClock(report, now1, now2) ==
    /\ now1 \in now_ms..MaxClock
    /\ now2 \in now1..MaxClock
    /\ (http_api = "Off" \/ report.predicates_triggered = {}) => now1 = now_ms
    /\ (http_api = "Off"
          \/ report.predicates_evaluated \ report.predicates_triggered = {}) => now2 = now1
    /\ now_ms' = now2

\* ObserverEvent::BitcoinChainEvent((_chain_update, report))
HandleBitcoinChainEvent ==
    \E report \in ReportsOf("Bitcoin"), now1 \in 1..MaxClock, now2 \in 1..MaxClock :
        /\ ReportClock(report, now1, now2)
        /\ Delivered("BitcoinChainEvent",
                     EventInput("", TRUE, report, now1, now2,
                                IF http_api = "On"
                                THEN <<"update_streaming_status_from_report">>
                                ELSE <<>>))
        /\ IF http_api = "On"
           THEN LoopMerged(update_streaming_status_from_report(report, status, now1, now2))
           ELSE UNCHANGED <<status, thread_aborted, service_pc>>
        /\ UNCHANGED <<stored_specification, stacks_event, stacks_scan_op_tx,
                       bitcoin_scan_op_tx, scan, enable_pending, observer_predicate,
                       registered_events, scan_ops_sent>>

\* StacksChainEvent
StacksChainEventKinds ==
    {"ChainUpdatedWithBlocks", "ChainUpdatedWithReorg",
     "ChainUpdatedWithMicroblocks", "ChainUpdatedWithMicroblocksReorg"}

\* ObserverEvent::StacksChainEvent((chain_event, report)); conn_ok is the
\* outcome of open_readwrite_stacks_db_conn.
HandleStacksChainEvent ==
    \E event \in StacksChainEventKinds, conn_ok \in BOOLEAN,
       report \in ReportsOf("Stacks"), now1 \in 1..MaxClock, now2 \in 1..MaxClock :
        LET counted == IF event = "ChainUpdatedWithBlocks"
                       THEN stacks_event + 1 ELSE stacks_event
            result == update_streaming_status_from_report(report, status, now1, now2)
            panics == http_api = "On" /\ result.aborted
            refresh == counted > ArchiveRefreshPeriod /\ ~panics
            effects ==
                (IF event \in {"ChainUpdatedWithBlocks", "ChainUpdatedWithReorg"}
                 THEN <<"confirm_entries_in_stacks_blocks", "draft_entries_in_stacks_blocks">>
                 ELSE <<>>)
                \o (IF http_api = "On" THEN <<"update_streaming_status_from_report">>
                    ELSE <<>>)
                \o (IF refresh THEN <<"consolidate_local_stacks_chainstate_using_csv">>
                    ELSE <<>>)
        IN  IF ~conn_ok
            THEN /\ now1 = now_ms
                 /\ now2 = now_ms
                 /\ Delivered("StacksChainEvent",
                              EventInput(event, FALSE, report, now1, now2, <<>>))
                 /\ UNCHANGED <<status, now_ms, thread_aborted, service_pc, stacks_event>>
                 /\ UNCHANGED <<stored_specification, stacks_scan_op_tx,
                                bitcoin_scan_op_tx, scan, enable_pending,
                                observer_predicate, registered_events, scan_ops_sent>>
            ELSE /\ ReportClock(report, now1, now2)
                 /\ Delivered("StacksChainEvent",
                              EventInput(event, TRUE, report, now1, now2, effects))
                 /\ stacks_event' = IF refresh THEN 0 ELSE counted
                 /\ IF http_api = "On"
                    THEN LoopMerged(result)
                    ELSE UNCHANGED <<status, thread_aborted, service_pc>>
                 /\ UNCHANGED <<stored_specification, stacks_scan_op_tx,
                                bitcoin_scan_op_tx, scan, enable_pending,
                                observer_predicate, registered_events, scan_ops_sent>>

\* A variant of the Terminate arm that logs and goes on receiving.
HandleTerminate_keeps_receiving ==
    /\ service_pc = "running"
    /\ event_budget > 0
    /\ event_budget' = event_budget - 1
    /\ service_pc' = "running"
    /\ last_op' = "Terminate"
    /\ last_input' = NoInput
    /\ prev_status' = status
    /\ UNCHANGED <<status, now_ms, thread_aborted>>
    /\ UNCHANGED <<http_api, predicate_spec, stored_specification, stacks_event,
                   stacks_scan_op_tx, bitcoin_scan_op_tx, scan, enable_pending,
                   observer_predicate, registered_events, scan_ops_sent>>
    /\ UNCHANGED <<evaluatorVars, archiveVars, callVars>>

\* ObserverEvent::Terminate
HandleTerminate ==
    /\ service_pc = "running"
    /\ event_budget > 0
    /\ event_budget' = event_budget - 1
    /\ service_pc' = "stopped"
    /\ last_op' = "Terminate"
    /\ last_input' = NoInput
    /\ prev_status' = status
    /\ UNCHANGED <<status, now_ms, thread_aborted>>
    /\ UNCHANGED <<http_api, predicate_spec, stored_specification, stacks_event,
                   stacks_scan_op_tx, bitcoin_scan_op_tx, scan, enable_pending,
                   observer_predicate, registered_events, scan_ops_sent>>
    /\ UNCHANGED <<evaluatorVars, archiveVars, callVars>>

\* observer_event_rx.recv() fails: every sender is gone and no event is left.
HandleChannelClosed ==
    /\ service_pc = "running"
    /\ event_budget = 0
    /\ service_pc' = "stopped"
    /\ last_op' = "broken channel"
    /\ last_input' = NoInput
    /\ prev_status' = status
    /\ UNCHANGED <<status, now_ms, thread_aborted>>
    /\ UNCHANGED <<http_api, predicate_spec, stored_specification, stacks_event,
                   stacks_scan_op_tx, bitcoin_scan_op_tx, scan, enable_pending,
                   observer_predicate, event_budget, registered_events, scan_ops_sent>>
    /\ UNCHANGED <<evaluatorVars, archiveVars, callVars>>

\* Any other ObserverEvent: the `_ => {}` arm.
HandleOtherEvent ==
    /\ Delivered("other", NoInput)
    /\ UNCHANGED <<status, now_ms, thread_aborted>>
    /\ UNCHANGED <<stored_specification, service_pc, stacks_event, stacks_scan_op_tx,
                   bitcoin_scan_op_tx, scan, enable_pending, observer_predicate,
                   registered_events, scan_ops_sent>>

\* What a step of the scan runloop leaves alone.
ScanFrame ==
    /\ UNCHANGED <<http_api, predicate_spec, stored_specification, service_pc,
                   stacks_event, observer_predicate, event_budget, registered_events,
                   scan_ops_sent>>
    /\ UNCHANGED <<evaluatorVars, archiveVars, callVars>>

\* A scan runloop takes the next scan operation of its queue.
ScanStart ==
    \E to_scan \in 1..MaxCounter :
        /\ scan.phase = "idle"
        /\ \/ /\ stacks_scan_op_tx # <<>>
              /\ stacks_scan_op_tx' = Tail(stacks_scan_op_tx)
              /\ UNCHANGED bitcoin_scan_op_tx
           \/ /\ bitcoin_scan_op_tx # <<>>
              /\ bitcoin_scan_op_tx' = Tail(bitcoin_scan_op_tx)
              /\ UNCHANGED stacks_scan_op_tx
        /\ scan' = [NoScan EXCEPT !.phase = "scanning",
                                  !.number_of_blocks_to_scan = to_scan]
        /\ last_op' = "scan_start"
        /\ last_input' = NoInput
        /\ prev_status' = status
        /\ UNCHANGED <<status, now_ms, thread_aborted, enable_pending>>
        /\ ScanFrame

\* The scan evaluates one more block and stores its running counts with
\* set_predicate_scanning_status.
ScanBlock ==
    \E hit \in BOOLEAN, now \in 1..MaxClock :
        LET evaluated == scan.number_of_blocks_evaluated + 1
            triggered == scan.number_of_times_triggered + (IF hit THEN 1 ELSE 0)
            height == scan.last_evaluated_block_height + 1
            merged == set_predicate_scanning_status(
                          scan.number_of_blocks_to_scan, evaluated, triggered, height,
                          retrieve_predicate_status(status), now)
            counted == [scan EXCEPT !.number_of_blocks_evaluated = evaluated,
                                    !.number_of_times_triggered = triggered,
                                    !.last_evaluated_block_height = height]
        IN  /\ scan.phase = "scanning"
            /\ scan.number_of_blocks_evaluated < scan.number_of_blocks_to_scan
            /\ last_op' = "scan_block"
            /\ last_input' = ScanningInput(now, scan.number_of_blocks_to_scan,
                                           evaluated, triggered, height)
            /\ prev_status' = status
            /\ IF http_api = "On"
               THEN /\ ReadClock(now)
                    /\ IF merged = Unreachable
                       THEN /\ scan' = [counted EXCEPT !.phase = "panicked"]
                            /\ thread_aborted' = TRUE
                            /\ UNCHANGED status
                       ELSE /\ scan' = [counted EXCEPT !.last_written = merged]
                            /\ status' = merged
                            /\ UNCHANGED thread_aborted
               ELSE /\ now = now_ms
                    /\ scan' = counted
                    /\ UNCHANGED <<status, now_ms, thread_aborted>>
            /\ UNCHANGED <<stacks_scan_op_tx, bitcoin_scan_op_tx, enable_pending>>
            /\ ScanFrame

\* The scan range is exhausted: the runloop publishes PredicateEnabled; its
\* own set_streaming(FinishedScanning) may or may not have reached the store
\* by the time the event loop handles the event.
ScanFinish ==
    \E by_worker \in BOOLEAN, now \in 1..MaxClock :
        LET merged == set_predicate_streaming_status(
                          FinishedScanning, retrieve_predicate_status(status), now)
        IN  /\ scan.phase = "scanning"
            /\ scan.number_of_blocks_evaluated = scan.number_of_blocks_to_scan
            /\ last_op' = "scan_finish"
            /\ last_input' = MergeInput(now, 0, 0)
            /\ prev_status' = status
            /\ IF http_api = "On" /\ by_worker
               THEN /\ ReadClock(now)
                    /\ IF merged = Unreachable
                       THEN /\ scan' = [scan EXCEPT !.phase = "panicked"]
                            /\ thread_aborted' = TRUE
                            /\ UNCHANGED <<status, enable_pending>>
                       ELSE /\ scan' = [scan EXCEPT !.phase = "idle"]
                            /\ status' = merged
                            /\ enable_pending' = enable_pending + 1
                            /\ UNCHANGED thread_aborted
               ELSE /\ now = now_ms
                    /\ ~by_worker
                    /\ scan' = [scan EXCEPT !.phase = "idle"]
                    /\ enable_pending' = enable_pending + 1
                    /\ UNCHANGED <<status, now_ms, thread_aborted>>
            /\ UNCHANGED <<stacks_scan_op_tx, bitcoin_scan_op_tx>>
            /\ ScanFrame

NextService ==
    \/ HandlePredicateRegistered
    \/ HandlePredicateEnabled
    \/ HandlePredicateDeregistered
    \/ HandleBitcoinChainEvent
    \/ HandleStacksChainEvent
    \/ HandleTerminate
    \/ HandleChannelClosed
    \/ HandleOtherEvent
    \/ ScanStart
    \/ ScanBlock
    \/ ScanFinish

SpecService == InitService /\ [][NextService]_vars

----------------------------------------------------------------------------
(* download_stacks_dataset_if_required: the cached archive, its sha256     *)
(* file and the archive server.                                            *)

\* `&local[0..32]`
ShaPrefixLen == 32

\* The calls of download_stacks_dataset_if_required in a run of SpecArchive.
MaxCalls == 2

\* The bytes of a sha256 file: a first and a last character around a
\* filler, of two letters (one of them in both cases), one byte shorter
\* than the compared prefix, as long, or one byte longer.
ShaBodies ==
    { [i \in 1..n |-> IF i = 1 THEN head ELSE IF i = n THEN last ELSE filler] :
        head \in {"a", "A", "b"}, filler \in {"a", "A"}, last \in {"a", "A", "b"},
        n \in {ShaPrefixLen - 1, ShaPrefixLen, ShaPrefixLen + 1} }

\* u8::to_ascii_lowercase and [u8]::to_ascii_lowercase
u8_to_ascii_lowercase(c) == IF c = "A" THEN "a" ELSE IF c = "B" THEN "b" ELSE c
to_ascii_lowercase(bytes) == [i \in DOMAIN bytes |-> u8_to_ascii_lowercase(bytes[i])]

\* [u8]::starts_with
starts_with(bytes, needle) ==
    /\ Len(needle) <= Len(bytes)
    /\ SubSeq(bytes, 1, Len(needle)) = needle

\* The `should_download` binding of download_stacks_dataset_if_required:
\* local is the outcome of read_file_content_at_path, remote the outcome of
\* the GET of the sha256 url (None for Err); slicing a local file shorter
\* than 32 bytes panics.
should_download(local, remote) ==
    IF local # None /\ remote # None
    THEN IF Len(local[1]) < ShaPrefixLen
         THEN [panicked |-> TRUE, download |-> FALSE]
         ELSE [panicked |-> FALSE,
               download |->
                   ~starts_with(to_ascii_lowercase(remote[1]),
                                SubSeq(local[1], 1, ShaPrefixLen))]
    ELSE [panicked |-> FALSE, download |-> TRUE]

\* How a call of download_tsv_file ends: Ok(()), Err before the sha256 file
\* is written (the GET of the sha256 url failed), Err after it (the GET or
\* the stream of the archive failed), or never (a status other than 200
\* leaves the sender alive while the decoder thread is joined).
DownloadOutcomes == {"ok", "sha_failed", "file_failed", "blocked"}

\* download_tsv_file: what it leaves in the cache.
download_tsv_file(outcome, sha_file, tsv_file, remote) ==
    [local_sha_file |-> IF outcome = "sha_failed" THEN sha_file ELSE Some(remote),
     local_tsv_file |-> IF outcome = "ok" THEN Some(remote) ELSE tsv_file,
     result |-> outcome]

\* config.add_local_stacks_tsv_source(&tsv_file_path)
add_local_stacks_tsv_source(cfg) ==
    [cfg EXCEPT !.event_sources = Append(@, "StacksTsvPath")]

\* What a call read, whether it downloaded and added the source, and what
\* it returned (None when it did not return).
ArchiveCall(local, remote, downloaded, source_added, returned) ==
    [local |-> local, remote |-> remote, downloaded |-> downloaded,
     source_added |-> source_added, returned |-> returned]

\* download_stacks_dataset_if_required(config, ctx): remote is the outcome
\* of its GET of the sha256 url, outcome the way its download_tsv_file ends.
download_stacks_dataset_if_required(cfg, sha_file, tsv_file, body, remote, outcome) ==
    LET same == [local_sha_file |-> sha_file, local_tsv_file |-> tsv_file,
                 config |-> cfg, archive_pc |-> "running"]
        decision == should_download(sha_file, remote)
        download == download_tsv_file(outcome, sha_file, tsv_file, body)
        cached == [same EXCEPT !.local_sha_file = download.local_sha_file,
                               !.local_tsv_file = download.local_tsv_file]
    IN  IF ~cfg.is_initial_ingestion_required
        THEN same @@ [call |-> ArchiveCall(None, None, FALSE, FALSE, Some(FALSE))]
        ELSE IF ~(cfg.rely_on_remote_stacks_tsv /\ cfg.should_download_remote_stacks_tsv)
        THEN same @@ [call |-> ArchiveCall(None, None, FALSE, FALSE, Some(TRUE))]
        ELSE IF decision.panicked
        THEN [same EXCEPT !.archive_pc = "panicked"]
                 @@ [call |-> ArchiveCall(sha_file, remote, FALSE, FALSE, None)]
        ELSE IF ~decision.download
        THEN [same EXCEPT !.config = add_local_stacks_tsv_source(cfg)]
                 @@ [call |-> ArchiveCall(sha_file, remote, FALSE, TRUE, Some(FALSE))]
        ELSE IF download.result = "ok"
        THEN [cached EXCEPT !.config = add_local_stacks_tsv_source(cfg)]
                 @@ [call |-> ArchiveCall(sha_file, remote, TRUE, TRUE, Some(TRUE))]
        ELSE IF download.result = "blocked"
        THEN [cached EXCEPT !.archive_pc = "blocked"]
                 @@ [call |-> ArchiveCall(sha_file, remote, FALSE, FALSE, None)]
        ELSE [cached EXCEPT !.archive_pc = "exited"]
                 @@ [call |-> ArchiveCall(sha_file, remote, FALSE, FALSE, None)]

\* A cache and a server: the sha256 file is absent (or unreadable) or holds
\* some bytes, the archive is there when a download completed before.
InitArchive ==
    /\ local_sha_file \in {None} \cup { Some(body) : body \in ShaBodies }
    /\ local_tsv_file \in {None, local_sha_file}
    /\ remote_sha_file \in ShaBodies
    /\ config \in [is_initial_ingestion_required : BOOLEAN,
                   rely_on_remote_stacks_tsv : BOOLEAN,
                   should_download_remote_stacks_tsv : BOOLEAN,
                   event_sources : {<<>>}]
    /\ archive_pc = "running"
    /\ archive_calls = <<>>
    /\ DownloadIdle
    /\ EvaluatorIdle
    /\ StatusIdle
    /\ ServiceIdle
    /\ CallIdle

\* A call of download_stacks_dataset_if_required.
DownloadStacksDatasetIfRequired ==
    \E remote \in {None, Some(remote_sha_file)}, outcome \in DownloadOutcomes :
        LET after == download_stacks_dataset_if_required(
                         config, local_sha_file, local_tsv_file, remote_sha_file,
                         remote, outcome)
            reads == config.is_initial_ingestion_required
                        /\ config.rely_on_remote_stacks_tsv
                        /\ config.should_download_remote_stacks_tsv
            downloads == reads /\ ~should_download(local_sha_file, remote).panicked
                               /\ should_download(local_sha_file, remote).download
        IN  /\ archive_pc = "running"
            /\ Len(archive_calls) < MaxCalls
            /\ ~reads => remote = Some(remote_sha_file)
            /\ ~downloads => outcome = "ok"
            /\ local_sha_file' = after.local_sha_file
            /\ local_tsv_file' = after.local_tsv_file
            /\ config' = after.config
            /\ archive_pc' = after.archive_pc
            /\ archive_calls' = Append(archive_calls, after.call)
            /\ UNCHANGED <<remote_sha_file, downloader, chunk_channel, decoder_thread>>
            /\ UNCHANGED <<evaluatorVars, statusVars, serviceVars, callVars>>

NextArchive == DownloadStacksDatasetIfRequired

SpecArchive == InitArchive /\ [][NextArchive]_vars

\* The process is started again after it exited, panicked or was stopped
\* while it hung; the cache directory is what it left.
ProcessRestarted ==
    /\ archive_pc \in {"exited", "panicked", "blocked"}
    /\ Len(archive_calls) < MaxCalls
    /\ archive_pc' = "running"
    /\ UNCHANGED <<local_sha_file, local_tsv_file, remote_sha_file, config, archive_calls,
                   downloader, chunk_channel, decoder_thread>>
    /\ UNCHANGED <<evaluatorVars, statusVars, serviceVars, callVars>>

\* A cache that holds the archive of its sha256 file, or neither file.
InitRestart ==
    /\ InitArchive
    /\ local_tsv_file = local_sha_file

NextRestart ==
    \/ DownloadStacksDatasetIfRequired
    \/ ProcessRestarted

SpecRestart == InitRestart /\ [][NextRestart]_vars

----------------------------------------------------------------------------
(* download_tsv_file from the response of the archive url on: the async    *)
(* function streams the chunks of the body into a flume::bounded(0)        *)
(* channel, the decoder thread reads them through ChannelRead.             *)

\* Largest number of items the body stream yields.
MaxChunks == 3
\* Largest length of the buffer the decoder hands to ChannelRead::read.
MaxBuf == 2

\* What stream.next() yields: chunks of bytes (an empty one too) or an error.
StreamItems == { [ok |-> TRUE, chunk |-> c] : c \in {<<>>, <<"x">>, <<"y", "z">>} }
                   \cup { [ok |-> FALSE, chunk |-> <<>>] }
Streams == UNION { [1..n -> StreamItems] : n \in 0..MaxChunks }

\* The state behind `std::thread::spawn(..)`: the response is there, the
\* channel is open and empty, the ChannelRead holds an empty cursor.
InitDownload ==
    /\ downloader \in [pc : {"started"}, status : {200, 404}, stream : Streams,
                        tx : {TRUE}, sent : {<<>>}]
    /\ chunk_channel = None
    /\ decoder_thread = [pc |-> "reading", rx |-> TRUE, current |-> <<>>, position |-> 0,
                         content |-> <<>>, eof |-> FALSE]
    /\ local_sha_file = None
    /\ local_tsv_file = None
    /\ remote_sha_file = <<>>
    /\ config = [is_initial_ingestion_required |-> FALSE,
                 rely_on_remote_stacks_tsv |-> FALSE,
                 should_download_remote_stacks_tsv |-> FALSE,
                 event_sources |-> <<>>]
    /\ archive_pc = "idle"
    /\ archive_calls = <<>>
    /\ EvaluatorIdle
    /\ StatusIdle
    /\ ServiceIdle
    /\ CallIdle

\* What a step of the download leaves alone.
DownloadFrame ==
    /\ UNCHANGED <<local_sha_file, local_tsv_file, remote_sha_file, config, archive_pc,
                   archive_calls>>
    /\ UNCHANGED <<evaluatorVars, statusVars, serviceVars, callVars>>

\* `if res.status() == reqwest::StatusCode::OK`: the body is streamed only
\* under 200; otherwise the function goes on to join the decoder thread,
\* its sender still alive.
CheckStatus ==
    /\ downloader.pc = "started"
    /\ downloader' = [downloader EXCEPT
                         !.pc = IF downloader.status = 200 THEN "streaming" ELSE "joining"]
    /\ UNCHANGED <<chunk_channel, decoder_thread>>
    /\ DownloadFrame

\* `while let Some(item) = stream.next().await`: at the end of the stream
\* the sender is dropped; an item that is an error makes the function
\* return Err, which drops the sender too; a chunk is offered to the
\* channel, or the send fails at once when the receiver is gone.
StreamNext ==
    /\ downloader.pc = "streaming"
    /\ IF downloader.stream = <<>>
       THEN /\ downloader' = [downloader EXCEPT !.pc = "joining", !.tx = FALSE]
            /\ UNCHANGED chunk_channel
       ELSE IF ~Head(downloader.stream).ok \/ ~decoder_thread.rx
       THEN /\ downloader' = [downloader EXCEPT !.pc = "returned_err", !.tx = FALSE]
            /\ UNCHANGED chunk_channel
       ELSE /\ downloader' = [downloader EXCEPT !.pc = "sending",
                                                !.stream = Tail(downloader.stream)]
            /\ chunk_channel' = Some(Head(downloader.stream).chunk)
    /\ UNCHANGED decoder_thread
    /\ DownloadFrame

\* send_async(..).await resolves: the receiver took the chunk.
SendResolved ==
    /\ downloader.pc = "sending"
    /\ chunk_channel = None
    /\ downloader' = [downloader EXCEPT !.pc = "streaming"]
    /\ UNCHANGED <<chunk_channel, decoder_thread>>
    /\ DownloadFrame

\* send_async(..).await fails: the receiver was dropped with the chunk
\* still offered; the function returns Err.
SendFailed ==
    /\ downloader.pc = "sending"
    /\ chunk_channel # None
    /\ ~decoder_thread.rx
    /\ downloader' = [downloader EXCEPT !.pc = "returned_err", !.tx = FALSE]
    /\ chunk_channel' = None
    /\ UNCHANGED decoder_thread
    /\ DownloadFrame

\* ChannelRead::read(&mut self, buf): received is what rx.recv() returned
\* when the cursor was exhausted (None for Err); the bytes are what
\* self.current.read(buf) copies into a buffer of len bytes.
ChannelRead_read(self, received, len) ==
    LET cursor == IF self.position = Len(self.current) /\ received # None
                  THEN [current |-> received[1], position |-> 0]
                  ELSE [current |-> self.current, position |-> self.position]
        n == IF Len(cursor.current) - cursor.position < len
             THEN Len(cursor.current) - cursor.position
             ELSE len
    IN  [current |-> cursor.current,
         position |-> cursor.position + n,
         bytes |-> SubSeq(cursor.current, cursor.position + 1, cursor.position + n)]

\* One read of decoder.read_to_end through ChannelRead: with the cursor
\* exhausted rx.recv() blocks until a chunk is offered or every sender is
\* gone; a read of no bytes ends read_to_end.
DecoderRead ==
    \E len \in 1..MaxBuf :
        LET exhausted == decoder_thread.position = Len(decoder_thread.current)
            received == IF exhausted THEN chunk_channel ELSE None
            read == ChannelRead_read(decoder_thread, received, len)
        IN  /\ decoder_thread.pc = "reading"
            /\ exhausted => (chunk_channel # None \/ ~downloader.tx)
            /\ decoder_thread' =
                  [decoder_thread EXCEPT
                      !.current = read.current,
                      !.position = read.position,
                      !.content = decoder_thread.content \o read.bytes,
                      !.eof = read.bytes = <<>>,
                      !.pc = IF read.bytes = <<>> THEN "writing" ELSE "reading"]
            /\ chunk_channel' = IF exhausted THEN None ELSE chunk_channel
            /\ downloader' =
                  IF exhausted /\ chunk_channel # None
                  THEN [downloader EXCEPT !.sent = Append(downloader.sent, chunk_channel[1])]
                  ELSE downloader
            /\ DownloadFrame

\* The GzDecoder fails on the bytes it has read: read_to_end returns Err,
\* which the thread ignores.
DecoderFailed ==
    /\ decoder_thread.pc = "reading"
    /\ decoder_thread.content # <<>>
    /\ decoder_thread' = [decoder_thread EXCEPT !.pc = "writing"]
    /\ UNCHANGED <<downloader, chunk_channel>>
    /\ DownloadFrame

\* The thread writes the file and ends; its receiver is dropped.
DecoderFinished ==
    /\ decoder_thread.pc = "writing"
    /\ decoder_thread' = [decoder_thread EXCEPT !.pc = "finished", !.rx = FALSE]
    /\ UNCHANGED <<downloader, chunk_channel>>
    /\ DownloadFrame

\* `spawn_blocking(|| decoder_thread.join()).await` resolves and the
\* function returns Ok(()).
Joined ==
    /\ downloader.pc = "joining"
    /\ decoder_thread.pc = "finished"
    /\ downloader' = [downloader EXCEPT !.pc = "returned_ok", !.tx = FALSE]
    /\ UNCHANGED <<chunk_channel, decoder_thread>>
    /\ DownloadFrame

NextDownload ==
    \/ CheckStatus
    \/ StreamNext
    \/ SendResolved
    \/ SendFailed
    \/ DecoderRead
    \/ DecoderFailed
    \/ DecoderFinished
    \/ Joined

SpecDownload == InitDownload /\ [][NextDownload]_vars

\* Both the async function and the decoder thread are scheduled: a step
\* that stays possible is taken.
SpecDownloadFair == SpecDownload /\ WF_vars(NextDownload)

----------------------------------------------------------------------------
(* The functions of chainhooks/bitcoin/mod.rs called one at a time on      *)
(* arguments drawn from bounded sets.                                      *)

\* HookAction
HttpPost(url, authorization_header) ==
    [kind |-> "HttpPost", url |-> url, authorization_header |-> authorization_header]
FileAppend(path) == [kind |-> "FileAppend", path |-> path]
Noop == [kind |-> "Noop"]

\* BitcoinNetwork
BitcoinNetworks == {"regtest", "testnet", "mainnet"}

\* BitcoinChainhookSpecification: the entry of one network.
BitcoinChainhookSpecifications ==
    { [blocks |-> None, start_block |-> None, end_block |-> None,
       expire_after_occurrence |-> None, include_proof |-> None,
       include_inputs |-> None, include_outputs |-> None, include_witness |-> None,
       predicate |-> PredicateBlock, action |-> Noop],
      [blocks |-> None, start_block |-> Some(1), end_block |-> Some(2),
       expire_after_occurrence |-> Some(1), include_proof |-> Some(TRUE),
       include_inputs |-> Some(TRUE), include_outputs |-> Some(FALSE),
       include_witness |-> Some(TRUE),
       predicate |-> PredicateTxid("a"), action |-> HttpPost("http://hook", "Bearer t")],
      [blocks |-> Some(<<1, 2>>), start_block |-> None, end_block |-> None,
       expire_after_occurrence |-> None, include_proof |-> Some(FALSE),
       include_inputs |-> Some(FALSE), include_outputs |-> Some(TRUE),
       include_witness |-> None,
       predicate |-> PredicateBlock, action |-> FileAppend("hook.txt")] }

\* BitcoinChainhookSpecificationNetworkMap: networks is a BTreeMap.
BitcoinChainhookSpecificationNetworkMaps ==
    UNION { [uuid : {"uuid-1"}, owner_uuid : {None, Some("owner-1")},
             name : {"hook"}, version : {1},
             networks : [keys -> BitcoinChainhookSpecifications]] :
            keys \in SUBSET BitcoinNetworks }

\* A variant of into_specification_for_network that projects the entry of
\* some network of the map, whichever is asked for.
into_specification_for_network_any_entry(self, network) ==
    IF DOMAIN self.networks = {}
    THEN Err("Network unknown")
    ELSE LET spec == self.networks[CHOOSE n \in DOMAIN self.networks : TRUE]
         IN  Ok([uuid |-> self.uuid,
                 owner_uuid |-> self.owner_uuid,
                 name |-> self.name,
                 network |-> network,
                 version |-> self.version,
                 start_block |-> spec.start_block,
                 end_block |-> spec.end_block,
                 blocks |-> spec.blocks,
                 expire_after_occurrence |-> spec.expire_after_occurrence,
                 predicate |-> spec.predicate,
                 action |-> spec.action,
                 include_proof |-> unwrap_or(spec.include_proof, FALSE),
                 include_inputs |-> unwrap_or(spec.include_inputs, FALSE),
                 include_outputs |-> unwrap_or(spec.include_outputs, FALSE),
                 include_witness |-> unwrap_or(spec.include_witness, FALSE),
                 enabled |-> FALSE,
                 expired_at |-> None])

\* BitcoinChainhookSpecificationNetworkMap::into_specification_for_network
into_specification_for_network(self, network) ==
    IF network \notin DOMAIN self.networks
    THEN Err("Network unknown")
    ELSE LET spec == self.networks[network]
         IN  Ok([uuid |-> self.uuid,
                 owner_uuid |-> self.owner_uuid,
                 name |-> self.name,
                 network |-> network,
                 version |-> self.version,
                 start_block |-> spec.start_block,
                 end_block |-> spec.end_block,
                 blocks |-> spec.blocks,
                 expire_after_occurrence |-> spec.expire_after_occurrence,
                 predicate |-> spec.predicate,
                 action |-> spec.action,
                 include_proof |-> unwrap_or(spec.include_proof, FALSE),
                 include_inputs |-> unwrap_or(spec.include_inputs, FALSE),
                 include_outputs |-> unwrap_or(spec.include_outputs, FALSE),
                 include_witness |-> unwrap_or(spec.include_witness, FALSE),
                 enabled |-> FALSE,
                 expired_at |-> None])

\* The script_pubkey of an output that is no OP_RETURN.
P2pkhScript == <<"0", "x", "7", "6", "a", "9">>

\* TxIn and TxOut with the fields the payload carries.
TxInput(txid, vout, witness) ==
    [previous_output |-> [txid |-> [hash |-> txid], vout |-> vout,
                          value |-> 1, block_height |-> 1],
     script_sig |-> "0x00", sequence |-> 0, witness |-> witness]
TxOutput(value, script_pubkey) == [value |-> value, script_pubkey |-> script_pubkey]

\* BitcoinTransactionData with all the fields of its metadata.
BitcoinTransactionData(hash, inputs, outputs, ordinal_operations, brc20_operation) ==
    [transaction_identifier |-> [hash |-> hash],
     operations |-> <<>>,
     metadata |-> [inputs |-> inputs,
                   outputs |-> outputs,
                   stacks_operations |-> <<>>,
                   ordinal_operations |-> ordinal_operations,
                   brc20_operation |-> brc20_operation,
                   proof |-> None,
                   fee |-> 1,
                   index |-> 0]]

\* A transaction with an input carrying a witness and an output, and an
\* inscription transfer of a BRC-20 token with neither inputs nor outputs.
TxWitness ==
    BitcoinTransactionData("a", <<TxInput("c", 0, <<"0x01", "0x02">>)>>,
                           <<TxOutput(1, P2pkhScript)>>, <<>>, None)
TxBrc20 ==
    BitcoinTransactionData("b", <<>>, <<>>, <<"inscription_transferred">>,
                           Some("transfer"))

\* BitcoinBlockData of a trigger; its transactions are replaced by the
\* matching ones in the payload.
TriggerBlock(index) ==
    [block_identifier |-> [index |-> index, hash |-> "main"],
     parent_block_identifier |-> [index |-> index - 1, hash |-> "main"],
     timestamp |-> index,
     transactions |-> <<TxWitness, TxBrc20>>,
     metadata |-> [network |-> "mainnet"]]

\* The chainhooks of the triggers: the instances of the network maps, with
\* every setting of the include flags and of enabled.
TriggerChainhooks ==
    { [into_specification_for_network(
           [uuid |-> "uuid-1", owner_uuid |-> None, name |-> "hook", version |-> 1,
            networks |-> [n \in {"mainnet"} |-> spec]], "mainnet").value
         EXCEPT !.include_inputs = flags[1], !.include_witness = flags[2],
                !.include_outputs = flags[3], !.enabled = flags[4]] :
        spec \in BitcoinChainhookSpecifications,
        flags \in [1..4 -> BOOLEAN] }

\* BitcoinTriggerChainhook: apply and rollback pair the matching
\* transactions of a block with the block.
BitcoinTriggerChainhooks ==
    [chainhook : TriggerChainhooks,
     apply : { <<>>, << <<<<TxWitness>>, TriggerBlock(2)>> >>,
               << <<<<TxWitness, TxBrc20>>, TriggerBlock(2)>> >>,
               << <<<<TxBrc20>>, TriggerBlock(2)>>, <<<<TxWitness>>, TriggerBlock(3)>> >> },
     rollback : { <<>>, << <<<<TxBrc20>>, TriggerBlock(1)>> >> }]

\* proofs: HashMap<&TransactionIdentifier, String>
ProofMaps == { EmptyMap, [id \in {[hash |-> "a"]} |-> "proof-a"] }
HashMapGet(map, key) == IF key \in DOMAIN map THEN Some(map[key]) ELSE None

\* serde_json::to_vec: the bytes of the encoding of a JSON value.
to_vec(value) == [json_bytes_of |-> value]

\* The brc20_operation key, inserted only for Some.
Brc20Entry(transaction) ==
    IF transaction.metadata.brc20_operation # None
    THEN [brc20_operation |-> transaction.metadata.brc20_operation[1]]
    ELSE EmptyMap

\* A variant of serialize_bitcoin_transactions_to_json that copies the
\* inputs, the witnesses and the outputs whatever the flags.
serialize_bitcoin_transactions_to_json_ignoring_flags(instance, transactions, proofs) ==
    [i \in DOMAIN transactions |->
        LET transaction == transactions[i]
        IN  [transaction_identifier |-> transaction.transaction_identifier,
             operations |-> transaction.operations,
             metadata |->
                 [fee |-> transaction.metadata.fee,
                  index |-> transaction.metadata.index,
                  inputs |-> [j \in DOMAIN transaction.metadata.inputs |->
                      LET input == transaction.metadata.inputs[j]
                      IN  [previous_output |->
                               [txin |-> input.previous_output.txid.hash,
                                vout |-> input.previous_output.vout,
                                value |-> input.previous_output.value,
                                block_height |-> input.previous_output.block_height],
                           script_sig |-> input.script_sig,
                           sequence |-> input.sequence,
                           witness |-> input.witness]],
                  outputs |-> transaction.metadata.outputs,
                  stacks_operations |-> transaction.metadata.stacks_operations,
                  ordinal_operations |-> transaction.metadata.ordinal_operations,
                  proof |-> HashMapGet(proofs, transaction.transaction_identifier)]
                 @@ Brc20Entry(transaction)]]

\* serialize_bitcoin_transactions_to_json
serialize_bitcoin_transactions_to_json(instance, transactions, proofs) ==
    [i \in DOMAIN transactions |->
        LET transaction == transactions[i]
            inputs ==
                IF instance.include_inputs
                THEN [j \in DOMAIN transaction.metadata.inputs |->
                        LET input == transaction.metadata.inputs[j]
                            witness == IF instance.include_witness
                                       THEN input.witness
                                       ELSE <<>>
                        IN  [previous_output |->
                                 [txin |-> input.previous_output.txid.hash,
                                  vout |-> input.previous_output.vout,
                                  value |-> input.previous_output.value,
                                  block_height |-> input.previous_output.block_height],
                             script_sig |-> input.script_sig,
                             sequence |-> input.sequence,
                             witness |-> witness]]
                ELSE <<>>
            outputs == IF instance.include_outputs
                       THEN transaction.metadata.outputs
                       ELSE <<>>
        IN  [transaction_identifier |-> transaction.transaction_identifier,
             operations |-> transaction.operations,
             metadata |->
                 [fee |-> transaction.metadata.fee,
                  index |-> transaction.metadata.index,
                  inputs |-> inputs,
                  outputs |-> outputs,
                  stacks_operations |-> transaction.metadata.stacks_operations,
                  ordinal_operations |-> transaction.metadata.ordinal_operations,
                  proof |-> HashMapGet(proofs, transaction.transaction_identifier)]
                 @@ Brc20Entry(transaction)]]

\* The JSON of the (transactions, block) pairs of apply or rollback.
SerializedBlocks(instance, pairs, proofs) ==
    [i \in DOMAIN pairs |->
        [block_identifier |-> pairs[i][2].block_identifier,
         parent_block_identifier |-> pairs[i][2].parent_block_identifier,
         timestamp |-> pairs[i][2].timestamp,
         transactions |->
             serialize_bitcoin_transactions_to_json(instance, pairs[i][1], proofs),
         metadata |-> pairs[i][2].metadata]]

\* A variant of serialize_bitcoin_payload_to_json that serializes every
\* transaction of the blocks.
serialize_bitcoin_payload_to_json_whole_blocks(trigger, proofs) ==
    LET whole(pairs) == [i \in DOMAIN pairs |-> <<pairs[i][2].transactions, pairs[i][2]>>]
    IN  [apply |-> SerializedBlocks(trigger.chainhook, whole(trigger.apply), proofs),
         rollback |-> SerializedBlocks(trigger.chainhook, whole(trigger.rollback), proofs),
         chainhook |-> [uuid |-> trigger.chainhook.uuid,
                        predicate |-> trigger.chainhook.predicate,
                        is_streaming_blocks |-> trigger.chainhook.enabled]]

\* serialize_bitcoin_payload_to_json
serialize_bitcoin_payload_to_json(trigger, proofs) ==
    [apply |-> SerializedBlocks(trigger.chainhook, trigger.apply, proofs),
     rollback |-> SerializedBlocks(trigger.chainhook, trigger.rollback, proofs),
     chainhook |-> [uuid |-> trigger.chainhook.uuid,
                    predicate |-> trigger.chainhook.predicate,
                    is_streaming_blocks |-> trigger.chainhook.enabled]]

\* The blocks of apply or rollback, each holding its matching transactions.
PayloadBlocks(pairs) ==
    [i \in DOMAIN pairs |-> [block |-> [pairs[i][2] EXCEPT !.transactions = pairs[i][1]]]]

\* BitcoinChainhookOccurrencePayload::from_trigger
from_trigger(trigger) ==
    [apply |-> PayloadBlocks(trigger.apply),
     rollback |-> PayloadBlocks(trigger.rollback),
     chainhook |-> [uuid |-> trigger.chainhook.uuid]]

\* BitcoinChainhookOccurrence
OccurrenceHttp(request, data) == [kind |-> "Http", request |-> request, data |-> data]
OccurrenceFile(path, bytes) == [kind |-> "File", path |-> path, bytes |-> bytes]
OccurrenceData(data) == [kind |-> "Data", data |-> data]

\* What a call of handle_bitcoin_hook_action leaves: the Result it returns,
\* and the requests it sent and the files it wrote meanwhile.
Handled(result, delivered) == [result |-> result, delivered |-> delivered]

\* A variant of handle_bitcoin_hook_action that sends the request and
\* appends to the file itself.
handle_bitcoin_hook_action_delivering(trigger, proofs, client_built, encoded) ==
    LET action == trigger.chainhook.action
        body == to_vec(serialize_bitcoin_payload_to_json(trigger, proofs))
    IN  CASE action.kind = "HttpPost" ->
                Handled(Ok(OccurrenceData(from_trigger(trigger))), <<action.url>>)
          [] action.kind = "FileAppend" ->
                Handled(Ok(OccurrenceData(from_trigger(trigger))), <<action.path>>)
          [] action.kind = "Noop" ->
                Handled(Ok(OccurrenceData(from_trigger(trigger))), <<>>)

\* handle_bitcoin_hook_action: client_built is the outcome of
\* Client::builder().build(), encoded the outcome of serde_json::to_vec.
handle_bitcoin_hook_action(trigger, proofs, client_built, encoded) ==
    LET action == trigger.chainhook.action
        body == to_vec(serialize_bitcoin_payload_to_json(trigger, proofs))
    IN  CASE action.kind = "HttpPost" ->
                IF ~client_built
                THEN Handled(Err("unable to build http client"), <<>>)
                ELSE IF ~encoded
                THEN Handled(Err("unable to serialize payload"), <<>>)
                ELSE Handled(Ok(OccurrenceHttp(
                                 [method |-> "POST",
                                  url |-> action.url,
                                  headers |->
                                      <<<<"Content-Type", "application/json">>,
                                        <<"Authorization", action.authorization_header>>>>,
                                  body |-> body],
                                 from_trigger(trigger))), <<>>)
          [] action.kind = "FileAppend" ->
                IF ~encoded
                THEN Handled(Err("unable to serialize payload"), <<>>)
                ELSE Handled(Ok(OccurrenceFile(action.path, body)), <<>>)
          [] action.kind = "Noop" ->
                Handled(Ok(OccurrenceData(from_trigger(trigger))), <<>>)

\* The bytes an OP_RETURN output carries: at most MaxPayloadLen of them.
MaxPayloadLen == 2
Payloads == UNION { [1..n -> { <<"a", "b">>, <<"6", "1">> }] : n \in 0..MaxPayloadLen }

\* The script_pubkey of an OP_RETURN output: the prefix, the opcode 0x6a,
\* the length of the data and the data.
OpReturnScript(payload) ==
    <<"0", "x", "6", "a">>
        \o <<"0", <<"0", "1", "2", "3", "4", "5", "6", "7", "8", "9">>[Len(payload) + 1]>>
        \o hex_encode(payload)

\* The spellings of a payload as a pattern: its hex in lower or upper case
\* letters, with or without the 0x prefix.
char_to_uppercase(c) ==
    CASE c = "a" -> "A" [] c = "b" -> "B" [] c = "c" -> "C"
      [] c = "d" -> "D" [] c = "e" -> "E" [] c = "f" -> "F" [] OTHER -> c
to_uppercase(str) == [i \in DOMAIN str |-> char_to_uppercase(str[i])]
PrefixedSpellings(payload) ==
    { <<"0", "x">> \o hex_encode(payload), <<"0", "x">> \o to_uppercase(hex_encode(payload)) }
BareSpellings(payload) ==
    { hex_encode(payload), to_uppercase(hex_encode(payload)) }
Spellings(payload) == PrefixedSpellings(payload) \cup BareSpellings(payload)

\* The patterns of the rules: the spellings of the payloads and a text.
Patterns == UNION { Spellings(payload) : payload \in Payloads } \cup { <<"a">> }
MatchingRules ==
    { MatchingRule(kind, pattern) :
        kind \in {"starts_with", "ends_with", "equals"}, pattern \in Patterns }

\* Transactions with an OP_RETURN output, alone or behind another output.
OpReturnTransactions ==
    UNION { { BitcoinTransactionData("a", <<>>,
                  <<TxOutput(0, OpReturnScript(payload))>>, <<>>, None),
              BitcoinTransactionData("a", <<>>,
                  <<TxOutput(1, P2pkhScript), TxOutput(0, OpReturnScript(payload))>>,
                  <<>>, None) } : payload \in Payloads }

\* The addresses of the address predicates, and transactions paying to
\* the script of one of them, alone or behind an OP_RETURN output.
EncodedAddresses == {"1pkh", "3sh", "bc1qwpkh", "bc1qwsh", "not-an-address"}
AddressTransactions ==
    UNION { { BitcoinTransactionData("a", <<>>,
                  <<TxOutput(1, <<"0", "x">> \o address_bytes(Address_from_str(a).value))>>,
                  <<>>, None),
              BitcoinTransactionData("a", <<>>,
                  <<TxOutput(0, OpReturnScript(<<>>)),
                    TxOutput(1, <<"0", "x">> \o address_bytes(Address_from_str(a).value))>>,
                  <<>>, None) } : a \in EncodedAddresses \ {"not-an-address"} }

\* The largest child index an output of the model is derived at.
MaxChildIndex == 6
\* The ranges of the descriptor predicates: unset, the ranges the
\* deserializer accepts, and an empty one built in code.
DescriptorRanges ==
    {None} \cup { Some(<<lo, hi>>) : lo \in 0..MaxChildIndex, hi \in 1..(MaxChildIndex + 1) }
\* Transactions paying to the script a descriptor derives at one index.
DescriptorTransactions ==
    { BitcoinTransactionData("a", <<>>,
          <<TxOutput(1, P2pkhScript),
            TxOutput(1, <<"0", "x">> \o derived_script_pubkey([has_wildcard |-> w], i))>>,
          <<>>, None) : w \in BOOLEAN, i \in 0..MaxChildIndex }

\* A transaction spending (c, 0) and (d, 1).
TxTwoInputs == Tx("e", <<TxIn("c", 0), TxIn("d", 1)>>, <<>>, <<>>, None)

\* The meta_protocols of an InscriptionFeed predicate.
MetaProtocolSets == {None} \cup { Some(set) : set \in SUBSET {"All", "Brc20"} }

\* One call of one function on arguments drawn from the bounded sets.
InitCalls ==
    /\ fn_call \in
          [fn : {"into_specification_for_network"},
           self : BitcoinChainhookSpecificationNetworkMaps,
           network : BitcoinNetworks]
          \cup
          [fn : {"serialize_bitcoin_payload_to_json"},
           trigger : BitcoinTriggerChainhooks,
           proofs : ProofMaps]
          \cup
          [fn : {"handle_bitcoin_hook_action"},
           trigger : BitcoinTriggerChainhooks,
           proofs : ProofMaps,
           client_built : BOOLEAN,
           encoded : BOOLEAN]
          \cup
          [fn : {"evaluate_transaction_predicate"},
           self : { PredicateOutputsOpReturn(rule) : rule \in MatchingRules },
           tx : OpReturnTransactions]
          \cup
          [fn : {"evaluate_transaction_predicate"},
           self : { PredicateOrdinalsProtocol(meta_protocols) :
                      meta_protocols \in MetaProtocolSets },
           tx : {TxA, TxB, TxBrc20}]
          \cup
          [fn : {"evaluate_transaction_predicate"},
           self : { PredicateOutputsAddress(rule, encoded_address) :
                      rule \in {"p2pkh", "p2sh", "p2wpkh", "p2wsh"},
                      encoded_address \in EncodedAddresses },
           tx : AddressTransactions]
          \cup
          [fn : {"evaluate_transaction_predicate"},
           self : { PredicateOutputsDescriptor(expression, range) :
                      expression \in {"wpkh(xpub/*)", "wpkh(key)", "not a descriptor"},
                      range \in DescriptorRanges },
           tx : DescriptorTransactions]
          \cup
          [fn : {"evaluate_transaction_predicate"},
           self : { PredicateInputsTxid(txid, vout) : txid \in {"c", "d"}, vout \in {0, 1} },
           tx : {TxA, TxB, TxTwoInputs}]
    /\ fn_returned = None
    /\ EvaluatorIdle
    /\ StatusIdle
    /\ ServiceIdle
    /\ ArchiveIdle

\* What a call leaves alone.
CallFrame ==
    /\ UNCHANGED fn_call
    /\ UNCHANGED <<evaluatorVars, statusVars, serviceVars, archiveVars>>

IntoSpecificationForNetwork ==
    /\ fn_call.fn = "into_specification_for_network"
    /\ fn_returned = None
    /\ fn_returned' = Some(into_specification_for_network(fn_call.self, fn_call.network))
    /\ CallFrame

SerializeBitcoinPayloadToJson ==
    /\ fn_call.fn = "serialize_bitcoin_payload_to_json"
    /\ fn_returned = None
    /\ fn_returned' = Some(serialize_bitcoin_payload_to_json(fn_call.trigger, fn_call.proofs))
    /\ CallFrame

\* A second call of serialize_bitcoin_payload_to_json on the same trigger
\* and proof map; its value is kept behind the first one.
SerializeBitcoinPayloadToJsonAgain ==
    /\ fn_call.fn = "serialize_bitcoin_payload_to_json"
    /\ Len(fn_returned) = 1
    /\ fn_returned' = Append(fn_returned,
                             serialize_bitcoin_payload_to_json(fn_call.trigger, fn_call.proofs))
    /\ CallFrame

HandleBitcoinHookAction ==
    /\ fn_call.fn = "handle_bitcoin_hook_action"
    /\ fn_returned = None
    /\ fn_returned' = Some(handle_bitcoin_hook_action(
                               fn_call.trigger, fn_call.proofs,
                               fn_call.client_built, fn_call.encoded))
    /\ CallFrame

\* iter is the order in which the HashSet of meta_protocols is iterated.
EvaluateTransactionPredicate ==
    /\ fn_call.fn = "evaluate_transaction_predicate"
    /\ fn_returned = None
    /\ \E iter \in PredicateIterationOrders(fn_call.self) :
            fn_returned' = Some(evaluate_transaction_predicate(fn_call.self, fn_call.tx, iter))
    /\ CallFrame

NextCalls ==
    \/ IntoSpecificationForNetwork
    \/ SerializeBitcoinPayloadToJson
    \/ SerializeBitcoinPayloadToJsonAgain
    \/ HandleBitcoinHookAction
    \/ EvaluateTransactionPredicate

SpecCalls == InitCalls /\ [][NextCalls]_vars

----------------------------------------------------------------------------
(* Properties of the evaluator. *)

\* The first call has returned (it did not panic).
Returned == pc # "ready" /\ ~first.panicked

\* What a call hands back to its caller.
ReturnValue(r) ==
    <<r.panicked, r.triggered_predicates, r.evaluated_predicates, r.expired_predicates>>

\* The blocks of the event in the order the evaluator visits them.
EventBlocks == chain_event.new_blocks \o chain_event.blocks_to_rollback
                    \o chain_event.blocks_to_apply

\* The blocks whose loop inserts into evaluated_predicates.
TrackedBlocks == chain_event.new_blocks \o chain_event.blocks_to_apply

Range(s) == { s[i] : i \in DOMAIN s }
Last(s) == s[Len(s)]

\* The block is beyond the end_block of the chainhook.
Beyond(chainhook, block) ==
    chainhook.end_block # None /\ block.block_identifier.index > chainhook.end_block[1]

\* The triggers returned for a uuid.
TriggersOf(r, uuid) ==
    { r.triggered_predicates[i] : i \in { j \in DOMAIN r.triggered_predicates :
                                            r.triggered_predicates[j].chainhook = uuid } }

\* Every (hits, block) entry of a trigger.
Entries(trigger) == Range(trigger.apply) \cup Range(trigger.rollback)

\* s is an order-preserving subsequence of t.
RECURSIVE IsSubsequence(_, _)
IsSubsequence(s, t) ==
    IF s = <<>> THEN TRUE
    ELSE IF t = <<>> THEN FALSE
    ELSE IF Head(s) = Head(t) THEN IsSubsequence(Tail(s), Tail(t))
    ELSE IsSubsequence(s, Tail(t))

\* C1: a predicate is never recorded against the same block in both the
\* expired map and the evaluated map.
C1_ExpiredDisjointFromEvaluated ==
    Returned =>
        \A uuid \in DOMAIN first.expired_predicates :
            ~ ( /\ uuid \in DOMAIN first.evaluated_predicates
                /\ first.evaluated_predicates[uuid] = first.expired_predicates[uuid] )

\* C2: every predicate for which a trigger is returned also appears in the
\* evaluated map returned for that event.
C2_TriggeredSubsetOfEvaluated ==
    Returned =>
        \A i \in DOMAIN first.triggered_predicates :
            first.triggered_predicates[i].chainhook \in DOMAIN first.evaluated_predicates

\* C5: two evaluations of the same event and predicate list return identical
\* triggers and identical evaluated and expired maps.
C5_EvaluationDeterministic ==
    pc = "reevaluated" => ReturnValue(first) = ReturnValue(second)

\* C6: predicate evaluation is total: no call aborts the evaluating thread,
\* whatever predicate variant it is handed.
C6_EvaluationTotal ==
    pc # "ready" => ~first.panicked

MatchedSomewhere(i) ==
    \E b \in Range(EventBlocks) :
        /\ ~Beyond(active_chainhooks[i], b)
        /\ \E k \in DOMAIN b.transactions :
              evaluate_transaction_predicate(active_chainhooks[i].predicate,
                                             b.transactions[k], first.iters[i]) = "match"

PositionOf(uuid) == CHOOSE i \in DOMAIN active_chainhooks : active_chainhooks[i].uuid = uuid

\* The blocks of a list of trigger entries, and the matched lists.
BlocksOf(entries) == [k \in DOMAIN entries |-> entries[k].block]

BeyondBlocks(chainhook) == SelectSeq(EventBlocks, LAMBDA b : Beyond(chainhook, b))

\* C11: every predicate handed to the evaluator is in the evaluated map with
\* the last block of the event seen for it, and the expired map holds the
\* last block beyond its end_block in processing order (rollback blocks
\* first, then apply blocks).
C11_EvaluatedLastBlockSeen ==
    (Returned /\ EventBlocks # <<>>) =>
        \A i \in DOMAIN active_chainhooks :
            LET chainhook == active_chainhooks[i]
                uuid == chainhook.uuid
            IN  /\ uuid \in DOMAIN first.evaluated_predicates
                /\ first.evaluated_predicates[uuid] = Last(EventBlocks).block_identifier
                /\ BeyondBlocks(chainhook) # <<>> =>
                      /\ uuid \in DOMAIN first.expired_predicates
                      /\ first.expired_predicates[uuid]
                            = Last(BeyondBlocks(chainhook)).block_identifier

----------------------------------------------------------------------------
(* Properties of the status store. *)

\* The last operation was one of the merge operations.
StreamingOps == {"occurrence", "evaluation", "finished_scanning"}
MergeOps == StreamingOps \cup {"set_scanning", "set_expired"}

\* The stored payloads a merge reads as "no prior status".
NoPrior == {"None", "Unparseable"}

LifecycleTransitions ==
    { <<"New", "Scanning">>, <<"Scanning", "Streaming">>,
      <<"New", "Expired">>, <<"Scanning", "Expired">>, <<"Streaming", "Expired">> }
    \cup { <<k, "Interrupted">> : k \in {"New", "Scanning", "Streaming", "Expired"} }

\* C4 as stated: every change of the stored status made by a merge is a
\* lifecycle transition; an Expired status is never turned back into
\* Streaming or Scanning.
C4_OnlyLifecycleTransitions ==
    (last_op \in MergeOps /\ prev_status.kind \notin NoPrior
        /\ status.kind # prev_status.kind) =>
        <<prev_status.kind, status.kind>> \in LifecycleTransitions

\* C4 (amended): a merge stores its own kind from the states it accepts -
\* set_scanning from New, Scanning, Expired or no status, set_streaming from
\* Scanning, Streaming, Expired or no status, set_expired from New, Scanning,
\* Streaming, Expired or no status - so Expired is not terminal; from any
\* other state the merge aborts and the stored status stays as it was.
C4_MergeTransitions ==
    /\ last_op = "set_scanning" =>
          \/ /\ status.kind = "Scanning"
             /\ prev_status.kind \in NoPrior \cup {"New", "Scanning", "Expired"}
          \/ /\ prev_status.kind \in {"Streaming", "Interrupted"}
             /\ status = prev_status
             /\ thread_aborted
    /\ last_op \in StreamingOps =>
          \/ /\ status.kind = "Streaming"
             /\ prev_status.kind \in NoPrior \cup {"Scanning", "Streaming", "Expired"}
          \/ /\ prev_status.kind \in {"New", "Interrupted"}
             /\ status = prev_status
             /\ thread_aborted
    /\ last_op = "set_expired" =>
          \/ /\ status.kind = "Expired"
             /\ prev_status.kind \in NoPrior \cup {"New", "Scanning", "Streaming", "Expired"}
          \/ /\ prev_status.kind = "Interrupted"
             /\ status = prev_status
             /\ thread_aborted

\* C4 witness: a set_streaming update has turned an Expired status back into
\* Streaming, keeping its counters.
C4_Witness ==
    /\ last_op = "finished_scanning"
    /\ prev_status.kind = "Expired"
    /\ status.kind = "Streaming"
    /\ status.number_of_blocks_evaluated = prev_status.number_of_blocks_evaluated
    /\ status.number_of_blocks_evaluated > 0

\* The counters a merge starts from: those of the status it read, or zero
\* when it read none.
Prior(s) ==
    IF HasCounters(s)
    THEN [last_occurrence |-> s.last_occurrence,
          number_of_blocks_evaluated |-> s.number_of_blocks_evaluated,
          number_of_times_triggered |-> s.number_of_times_triggered,
          last_evaluated_block_height |-> s.last_evaluated_block_height]
    ELSE [last_occurrence |-> 0, number_of_blocks_evaluated |-> 0,
          number_of_times_triggered |-> 0, last_evaluated_block_height |-> 0]

\* The previous states set_streaming takes counters from.
StreamingAccepts == {"None", "Scanning", "Streaming", "Expired"}

C13_EvaluationMerge ==
    (last_op = "evaluation" /\ prev_status.kind \in StreamingAccepts) =>
        /\ status.kind = "Streaming"
        /\ status.last_occurrence = Prior(prev_status).last_occurrence
        /\ status.number_of_times_triggered = Prior(prev_status).number_of_times_triggered
        /\ status.number_of_blocks_evaluated
              = Prior(prev_status).number_of_blocks_evaluated + last_input.count
        /\ status.last_evaluated_block_height = last_input.height

\* C13 witness: an Evaluation at height 1 on a Streaming status that stood
\* at height 2 leaves height 1.
C13_Witness ==
    /\ last_op = "evaluation"
    /\ prev_status.kind = "Streaming"
    /\ prev_status.last_evaluated_block_height = 2
    /\ prev_status.last_occurrence > 0
    /\ last_input.height = 1
    /\ status.last_evaluated_block_height = 1
    /\ status.number_of_blocks_evaluated > prev_status.number_of_blocks_evaluated

\* The counters and the height of a status.
CountersOf(s) ==
    <<s.number_of_times_triggered, s.number_of_blocks_evaluated,
      s.last_occurrence, s.last_evaluated_block_height>>

\* C14: set_streaming(FinishedScanning) from Scanning, Streaming or Expired
\* stores Streaming with times_triggered, blocks_evaluated, last_occurrence
\* and last_evaluated_height as they were; every set_streaming sets
\* last_evaluation to the current time; FinishedScanning applied twice
\* leaves the counters of FinishedScanning applied once.
C14_FinishedScanningPure ==
    /\ (last_op = "finished_scanning" /\ HasCounters(prev_status)) =>
          /\ status.kind = "Streaming"
          /\ CountersOf(status) = CountersOf(prev_status)
    /\ (last_op \in StreamingOps /\ prev_status.kind \in StreamingAccepts) =>
          status.last_evaluation = last_input.now
    /\ HasCounters(status) =>
          LET once == set_predicate_streaming_status(FinishedScanning, status, now_ms)
              twice == set_predicate_streaming_status(FinishedScanning, once, MaxClock)
          IN  CountersOf(twice) = CountersOf(once)

\* C14 witness: FinishedScanning on a Scanning status with non-zero counters,
\* at a later time than its last occurrence.
C14_Witness ==
    /\ last_op = "finished_scanning"
    /\ prev_status.kind = "Scanning"
    /\ prev_status.number_of_times_triggered > 0
    /\ prev_status.last_evaluated_block_height > 0
    /\ status.kind = "Streaming"
    /\ CountersOf(status) = CountersOf(prev_status)
    /\ status.last_evaluation > status.last_occurrence

\* C15: set_expired stores an Expired status whose blocks_evaluated is the
\* previous blocks_evaluated plus new_blocks_evaluated, with times_triggered
\* and last_occurrence carried and last_evaluated_height the argument, from
\* Scanning, Streaming, Expired and from no status (all-zero counters).
C15_ExpiredMerge ==
    (last_op = "set_expired" /\ prev_status.kind \in StreamingAccepts) =>
        /\ status.kind = "Expired"
        /\ status.number_of_blocks_evaluated
              = Prior(prev_status).number_of_blocks_evaluated + last_input.count
        /\ status.number_of_times_triggered = Prior(prev_status).number_of_times_triggered
        /\ status.last_occurrence = Prior(prev_status).last_occurrence
        /\ status.last_evaluated_block_height = last_input.height

\* C16: set_scanning stores a Scanning status with the counts and the height
\* it is given; last_occurrence is now when times_triggered is above the
\* previous status's (or the previous status is New and times_triggered > 0),
\* else the previous last_occurrence, or 0 when there is none.
C16_ScanningMerge ==
    (last_op = "set_scanning"
        /\ prev_status.kind \in NoPrior \cup {"New", "Scanning", "Expired"}) =>
        /\ status.kind = "Scanning"
        /\ status.number_of_blocks_to_scan = last_input.number_of_blocks_to_scan
        /\ status.number_of_blocks_evaluated = last_input.number_of_blocks_evaluated
        /\ status.number_of_times_triggered = last_input.number_of_times_triggered
        /\ status.last_evaluated_block_height = last_input.height
        /\ status.last_occurrence =
              IF \/ /\ HasCounters(prev_status)
                    /\ last_input.number_of_times_triggered
                          > prev_status.number_of_times_triggered
                 \/ /\ prev_status.kind = "New"
                    /\ last_input.number_of_times_triggered > 0
              THEN last_input.now
              ELSE Prior(prev_status).last_occurrence

\* C16 witness: a scan update that raises times_triggered of a Scanning
\* status stamps a later last_occurrence.
C16_Witness ==
    /\ last_op = "set_scanning"
    /\ prev_status.kind = "Scanning"
    /\ prev_status.last_occurrence > 0
    /\ status.number_of_times_triggered > prev_status.number_of_times_triggered
    /\ status.last_occurrence = last_input.now
    /\ status.last_occurrence > prev_status.last_occurrence

\* C17: a key without a status field and a key whose stored status cannot be
\* parsed both read as None; the merge that runs then completes as it does
\* without a prior status, set_streaming with counters counted from zero.
C17_UnreadableStatusIsNoStatus ==
    (last_op \in MergeOps /\ prev_status.kind \in NoPrior) =>
        /\ last_op = "occurrence" =>
              status = StatusStreaming(last_input.now, last_input.now, last_input.count,
                                       last_input.height, last_input.count)
        /\ last_op = "evaluation" =>
              status = StatusStreaming(0, last_input.now, 0,
                                       last_input.height, last_input.count)
        /\ last_op = "finished_scanning" =>
              status = StatusStreaming(0, last_input.now, 0, 0, 0)
        /\ last_op = "set_scanning" =>
              status = StatusScanning(last_input.number_of_blocks_to_scan,
                                      last_input.number_of_blocks_evaluated,
                                      last_input.number_of_times_triggered,
                                      0, last_input.height)
        /\ last_op = "set_expired" =>
              status = set_expired_status(last_input.count, last_input.height, NoStatus)

\* C17 witness: an Occurrence of two blocks merged over a payload that cannot
\* be parsed stores the counters of the two blocks alone.
C17_Witness ==
    /\ last_op = "occurrence"
    /\ prev_status = StatusUnparseable
    /\ status.kind = "Streaming"
    /\ status.number_of_times_triggered = 2
    /\ status.number_of_blocks_evaluated = 2

----------------------------------------------------------------------------
(* Properties of the event loop. *)

\* C18: every PredicateRegistered event consumed has the spec enqueued
\* exactly once to the scan runloop of its chain kind, also when the status
\* store connection fails or the predicates API is off; when the store is
\* reachable the spec is persisted and the status set to New before the
\* enqueue.
C18_RegisteredAlwaysEnqueued ==
    /\ scan_ops_sent[predicate_spec.chain] = registered_events
    /\ \A chain \in ChainKinds \ {predicate_spec.chain} : scan_ops_sent[chain] = 0
    /\ (last_op = "PredicateRegistered" /\ http_api = "On" /\ last_input.conn_ok) =>
          /\ last_input.effects
                = <<"update_predicate_spec", "update_predicate_status", "send">>
          /\ stored_specification = Some(predicate_spec)
          /\ status = StatusNew

\* The predicate was registered once and has not been deregistered since:
\* the observer holds it enabled after its first PredicateEnabled.
StillRegistered == registered_events = 1 /\ observer_predicate = "enabled"

C20_ReportAlwaysApplied ==
    (last_op \in {"BitcoinChainEvent", "StacksChainEvent"} /\ http_api = "On") =>
        status = update_streaming_status_from_report(
                     last_input.report, prev_status,
                     last_input.now1, last_input.now2).status

\* The handler of the last chain event applied its report to the store.
ReportApplied ==
    /\ last_op \in {"BitcoinChainEvent", "StacksChainEvent"}
    /\ http_api = "On"
    /\ last_input.conn_ok

\* The block identifiers a report lists for the predicate.
ListedBlocks(report) ==
    report.predicates_triggered \cup report.predicates_evaluated
        \cup report.predicates_expired

\* C21: after the report of a live event is applied to a Streaming predicate
\* that is not expired, last_evaluated_height is the highest block index the
\* report lists for it and times_triggered has grown by the number of
\* triggered blocks, also when the report holds evaluated blocks that did
\* not trigger.
C21_ReportSetsHighestHeight ==
    (ReportApplied /\ prev_status.kind = "Streaming"
        /\ last_input.report.predicates_expired = {}
        /\ ListedBlocks(last_input.report) # {}) =>
        /\ status.kind = "Streaming"
        /\ status.last_evaluated_block_height
              = BTreeLast(ListedBlocks(last_input.report)).index
        /\ status.number_of_times_triggered
              = prev_status.number_of_times_triggered
                    + Cardinality(last_input.report.predicates_triggered)

\* ---------------------------------------------------------------------------
\* The event loop fed with app-chain events only: the archive refresh counter.
\* ---------------------------------------------------------------------------

\* The number of events the channel delivers in a run of SpecRefresh.
MaxRefreshEvents == 34

\* Service::run with no predicate registered and MaxRefreshEvents events to
\* come on observer_event_rx.
InitRefresh ==
    /\ http_api \in {"On", "Off"}
    /\ predicate_spec = PredicateSpec("Stacks")
    /\ stored_specification = None
    /\ service_pc = "running"
    /\ stacks_event = 0
    /\ stacks_scan_op_tx = <<>>
    /\ bitcoin_scan_op_tx = <<>>
    /\ scan = NoScan
    /\ enable_pending = 0
    /\ observer_predicate = "absent"
    /\ event_budget = MaxRefreshEvents
    /\ registered_events = 0
    /\ scan_ops_sent = [chain \in ChainKinds |-> 0]
    /\ StatusIdle
    /\ EvaluatorIdle
    /\ ArchiveIdle
    /\ CallIdle

NextRefresh ==
    \/ HandleStacksChainEvent
    \/ HandleTerminate
    \/ HandleChannelClosed

SpecRefresh == InitRefresh /\ [][NextRefresh]_vars

\* The number of events the loop of SpecRefresh has consumed so far.
ConsumedEvents == MaxRefreshEvents - event_budget

\* The handler of the last event ran the refresh of the bulk archive.
RefreshRan ==
    /\ last_op = "StacksChainEvent"
    /\ "consolidate_local_stacks_chainstate_using_csv" \in Range(last_input.effects)

\* C22: counting all consumed AppChainEvents, the refresh of the bulk archive
\* runs on the 32nd, 64th, ... event and on no other.
C22_RefreshEvery32Events ==
    last_op = "StacksChainEvent" =>
        (RefreshRan <=> ConsumedEvents % ArchiveRefreshPeriod = 0)

\* The steps of the scan runloops, which are threads of their own.
ScanOps == {"scan_start", "scan_block", "scan_finish"}

\* C23: the loop exits with Ok when it consumes Terminate or finds the event
\* channel closed; the events delivered before were handled one by one until
\* then, and once the loop has exited no event still in the channel is
\* consumed: nothing it would write to the status store or send to a scan
\* queue happens (only a scan runloop already fed may still write).
C23_TerminateStopsLoop ==
    /\ [](last_op \in {"Terminate", "broken channel"} => service_pc = "stopped")
    /\ [][service_pc = "stopped" =>
            /\ service_pc' = "stopped"
            /\ event_budget' = event_budget
            /\ scan_ops_sent' = scan_ops_sent
            /\ registered_events' = registered_events
            /\ stored_specification' = stored_specification
            /\ stacks_event' = stacks_event
            /\ last_op' \in ScanOps
            /\ Len(stacks_scan_op_tx') <= Len(stacks_scan_op_tx)
            /\ Len(bitcoin_scan_op_tx') <= Len(bitcoin_scan_op_tx)]_vars

\* Terminate was consumed after a registration was handled, with events
\* still in the channel behind it.
C23_Witness ==
    /\ last_op = "Terminate"
    /\ service_pc = "stopped"
    /\ event_budget > 0
    /\ registered_events = 1
    /\ \E chain \in ChainKinds : scan_ops_sent[chain] = 1

\* ---------------------------------------------------------------------------
\* Properties of download_stacks_dataset_if_required.
\* ---------------------------------------------------------------------------

\* The config sends the call to the comparison of the sha256 files.
ComparesSha ==
    /\ config.is_initial_ingestion_required
    /\ config.rely_on_remote_stacks_tsv
    /\ config.should_download_remote_stacks_tsv

\* The call found the archive up to date: no download, the source added,
\* false returned.
FoundUpToDate(call) ==
    /\ ~call.downloaded
    /\ call.source_added
    /\ call.returned = Some(FALSE)

\* The first 32 characters of the local sha256 file are a case-insensitive
\* prefix of the remote body.
FirstChars(bytes) ==
    SubSeq(bytes, 1, IF Len(bytes) < ShaPrefixLen THEN Len(bytes) ELSE ShaPrefixLen)
CaseInsensitivePrefix(local, remote) ==
    /\ local # None
    /\ remote # None
    /\ starts_with(to_ascii_lowercase(remote[1]),
                   to_ascii_lowercase(FirstChars(local[1])))

\* C24: download_stacks_dataset_if_required treats the local archive as up
\* to date, and does not download, if and only if the first 32 characters of
\* the local SHA file are a case-insensitive prefix of the remote SHA body; a
\* missing or unreadable local or remote SHA means download.
C24_UpToDateIffCaseInsensitivePrefix ==
    ComparesSha =>
        \A i \in DOMAIN archive_calls :
            FoundUpToDate(archive_calls[i])
                <=> CaseInsensitivePrefix(archive_calls[i].local, archive_calls[i].remote)

\* The call downloaded the archive, added the source and returned true.
Downloaded(call) ==
    /\ call.downloaded
    /\ call.source_added
    /\ call.returned = Some(TRUE)

\* The server answered every request of the calls made so far: the sha256
\* body was served to each call and no download failed or hung.
ServerAnswered ==
    /\ archive_pc \notin {"exited", "blocked"}
    /\ \A i \in DOMAIN archive_calls : archive_calls[i].remote # None

\* C25: with initial ingestion required (of a remote archive the config is
\* to download) and the remote archive unchanged, a first call on an empty
\* cache downloads the archive and returns true, and an immediately following
\* call finds the archive up to date, downloads nothing and returns false;
\* both calls add the local TSV path to the config as a source.
C25_DownloadsOnceThenUpToDate ==
    (ComparesSha /\ ServerAnswered /\ archive_calls # <<>>
        /\ archive_calls[1].local = None) =>
        /\ Downloaded(archive_calls[1])
        /\ Len(archive_calls) = MaxCalls => FoundUpToDate(archive_calls[MaxCalls])
        /\ Len(config.event_sources) = Len(archive_calls)

\* ---------------------------------------------------------------------------
\* Properties of the functions of chainhooks/bitcoin/mod.rs.
\* ---------------------------------------------------------------------------

\* The call of the function has returned.
CallReturned(fn) == fn_call.fn = fn /\ fn_returned # None

\* C26: into_specification_for_network fails if and only if the network is
\* not a key of the map's networks; otherwise the instance has that network,
\* the uuid, owner_uuid, name and version of the map, the fields of the
\* network's entry (an include flag that is unset reads false), enabled =
\* false and expired_at unset.
C26_ProjectionOfNetworkMap ==
    CallReturned("into_specification_for_network") =>
        LET M == fn_call.self
            n == fn_call.network
            result == fn_returned[1]
        IN  /\ ~result.ok <=> n \notin DOMAIN M.networks
            /\ result.ok =>
                /\ result.value.network = n
                /\ result.value.uuid = M.uuid
                /\ result.value.owner_uuid = M.owner_uuid
                /\ result.value.name = M.name
                /\ result.value.version = M.version
                /\ \A field \in {"start_block", "end_block", "blocks",
                                 "expire_after_occurrence", "predicate", "action"} :
                        result.value[field] = M.networks[n][field]
                /\ \A flag \in {"include_proof", "include_inputs",
                                "include_outputs", "include_witness"} :
                        result.value[flag] = (M.networks[n][flag] = Some(TRUE))
                /\ result.value.enabled = FALSE
                /\ result.value.expired_at = None

\* A map of two networks with different entries was projected on one of them.
C26_Witness ==
    /\ CallReturned("into_specification_for_network")
    /\ fn_returned[1].ok
    /\ Cardinality(DOMAIN fn_call.self.networks) = 2
    /\ \E m \in DOMAIN fn_call.self.networks :
            fn_call.self.networks[m] # fn_call.self.networks[fn_call.network]
    /\ fn_returned[1].value.include_inputs

\* The construction that fails for the action of a call of
\* handle_bitcoin_hook_action, if any does.
FailedConstruction ==
    \/ /\ fn_call.trigger.chainhook.action.kind = "HttpPost"
       /\ ~(fn_call.client_built /\ fn_call.encoded)
    \/ /\ fn_call.trigger.chainhook.action.kind = "FileAppend"
       /\ ~fn_call.encoded

\* C27: handle_bitcoin_hook_action maps the action variant to the outcome
\* kind: HttpPost yields an Http outcome holding a POST to the url with
\* Content-Type application/json and the Authorization header and the
\* payload as body, FileAppend{path} a File outcome with that path and the
\* payload bytes, Noop a Data outcome holding only the payload (the call
\* returns Err only when the http client or the payload bytes cannot be
\* built); the function itself performs no delivery.
C27_ActionDecidesOutcome ==
    CallReturned("handle_bitcoin_hook_action") =>
        LET action == fn_call.trigger.chainhook.action
            result == fn_returned[1].result
            bytes == to_vec(serialize_bitcoin_payload_to_json(fn_call.trigger, fn_call.proofs))
        IN  /\ fn_returned[1].delivered = <<>>
            /\ ~result.ok <=> FailedConstruction
            /\ (result.ok /\ action.kind = "HttpPost") =>
                /\ result.value.kind = "Http"
                /\ result.value.request.method = "POST"
                /\ result.value.request.url = action.url
                /\ <<"Content-Type", "application/json">>
                        \in Range(result.value.request.headers)
                /\ <<"Authorization", action.authorization_header>>
                        \in Range(result.value.request.headers)
                /\ result.value.request.body = bytes
                /\ result.value.data = from_trigger(fn_call.trigger)
            /\ (result.ok /\ action.kind = "FileAppend") =>
                /\ result.value = OccurrenceFile(action.path, bytes)
            /\ (result.ok /\ action.kind = "Noop") =>
                /\ result.value = OccurrenceData(from_trigger(fn_call.trigger))

\* An HttpPost trigger with blocks to apply and to roll back was handled.
C27_Witness ==
    /\ CallReturned("handle_bitcoin_hook_action")
    /\ fn_returned[1].result.ok
    /\ fn_returned[1].result.value.kind = "Http"
    /\ fn_call.trigger.apply # <<>>
    /\ fn_call.trigger.rollback # <<>>

\* The include flags decide the inputs, witnesses and outputs of the JSON of
\* one transaction.
FlagsDecide(instance, transaction, json) ==
    /\ instance.include_inputs =>
        /\ Len(json.metadata.inputs) = Len(transaction.metadata.inputs)
        /\ \A j \in DOMAIN json.metadata.inputs :
            /\ json.metadata.inputs[j].previous_output.txin
                    = transaction.metadata.inputs[j].previous_output.txid.hash
            /\ json.metadata.inputs[j].witness =
                    IF instance.include_witness
                    THEN transaction.metadata.inputs[j].witness
                    ELSE <<>>
    /\ ~instance.include_inputs => json.metadata.inputs = <<>>
    /\ instance.include_outputs => json.metadata.outputs = transaction.metadata.outputs
    /\ ~instance.include_outputs => json.metadata.outputs = <<>>

\* The same for every transaction of the blocks of apply or rollback.
FlagsDecideBlocks(instance, pairs, blocks) ==
    /\ Len(blocks) = Len(pairs)
    /\ \A i \in DOMAIN pairs :
        /\ Len(blocks[i].transactions) = Len(pairs[i][1])
        /\ \A t \in DOMAIN pairs[i][1] :
                FlagsDecide(instance, pairs[i][1][t], blocks[i].transactions[t])

\* C28: in the serialized payload a transaction's inputs are populated only
\* when the predicate has include_inputs, each input's witness only when
\* include_witness is set too, and the outputs only when include_outputs;
\* with a flag off the list is empty whatever the transaction holds.
C28_IncludeFlagsDecidePayload ==
    CallReturned("serialize_bitcoin_payload_to_json") =>
        /\ FlagsDecideBlocks(fn_call.trigger.chainhook, fn_call.trigger.apply,
                             fn_returned[1].apply)
        /\ FlagsDecideBlocks(fn_call.trigger.chainhook, fn_call.trigger.rollback,
                             fn_returned[1].rollback)

\* A transaction holding an input with a witness and an output was
\* serialized with include_inputs set and the other two flags off.
C28_Witness ==
    /\ CallReturned("serialize_bitcoin_payload_to_json")
    /\ fn_call.trigger.chainhook.include_inputs
    /\ ~fn_call.trigger.chainhook.include_witness
    /\ ~fn_call.trigger.chainhook.include_outputs
    /\ fn_call.trigger.apply # <<>>
    /\ fn_call.trigger.apply[1][1][1] = TxWitness
    /\ fn_returned[1].apply[1].transactions[1].metadata.inputs # <<>>
    /\ fn_returned[1].apply[1].transactions[1].metadata.inputs[1].witness = <<>>
    /\ fn_returned[1].apply[1].transactions[1].metadata.outputs = <<>>

\* An element of meta_protocols matches the transaction.
MetaProtocolMatches(meta_protocol, tx) ==
    IF meta_protocol = "All"
    THEN tx.metadata.ordinal_operations # <<>>
    ELSE tx.metadata.brc20_operation # None

\* C29: an OrdinalsProtocol(InscriptionFeed) predicate with meta_protocols
\* unset matches a transaction iff its ordinal_operations is non-empty; with
\* meta_protocols set it matches iff some element of the set matches the
\* transaction (All: ordinal_operations non-empty, Brc20: brc20_operation
\* present), so {All, Brc20} matches every transaction with non-empty
\* ordinal_operations and the empty set matches nothing.
C29_InscriptionFeedMatchesSomeElement ==
    (CallReturned("evaluate_transaction_predicate")
        /\ fn_call.self.scope = "ordinals_protocol") =>
        LET meta_protocols == fn_call.self.meta_protocols
            tx == fn_call.tx
        IN  (fn_returned[1] = "match") <=>
                IF meta_protocols = None
                THEN tx.metadata.ordinal_operations # <<>>
                ELSE \E meta_protocol \in meta_protocols[1] :
                        MetaProtocolMatches(meta_protocol, tx)

\* An Equals rule was evaluated on a transaction with an OP_RETURN output
\* whose data is the payload.
EqualsOnPayload(payload) ==
    /\ CallReturned("evaluate_transaction_predicate")
    /\ fn_call.self.scope = "outputs"
    /\ fn_call.self.rule = "op_return"
    /\ fn_call.self.matching_rule.kind = "equals"
    /\ \E i \in DOMAIN fn_call.tx.metadata.outputs :
            fn_call.tx.metadata.outputs[i].script_pubkey = OpReturnScript(payload)

\* C30 (as stated): for an OP_RETURN output whose data payload is exactly p,
\* Outputs(OpReturn(Equals(pattern))) matches for every spelling of p as a
\* pattern: the hex of p with or without the 0x prefix, in lower or upper
\* case letters.
C30_EverySpellingMatches ==
    \A payload \in Payloads :
        (EqualsOnPayload(payload)
            /\ fn_call.self.matching_rule.pattern \in Spellings(payload)) =>
            fn_returned[1] = "match"

\* C30 (amended): for an OP_RETURN output whose data payload is exactly p,
\* Outputs(OpReturn(Equals(pattern))) matches when the pattern is the hex of
\* p behind the 0x prefix, in lower or upper case letters; a pattern without
\* the prefix is read as text, so it matches when its characters are the
\* bytes of p, and the bare hex of a non-empty p does not match.
C30_PrefixedSpellingMatches ==
    \A payload \in Payloads :
        EqualsOnPayload(payload) =>
            LET pattern == fn_call.self.matching_rule.pattern
            IN  /\ pattern \in PrefixedSpellings(payload) => fn_returned[1] = "match"
                /\ (pattern \in BareSpellings(payload) /\ payload # <<>>) =>
                        fn_returned[1] = "no_match"
                /\ (~str_starts_with(pattern, <<"0", "x">>)
                        /\ hex_encode_str(pattern) = hex_encode(payload)) =>
                        fn_returned[1] = "match"

\* The upper-case prefixed hex of a two-byte payload matched an OP_RETURN
\* output that follows another output.
C30_Witness ==
    /\ EqualsOnPayload(<< <<"a", "b">>, <<"6", "1">> >>)
    /\ fn_call.self.matching_rule.pattern = <<"0", "x", "A", "B", "6", "1">>
    /\ Len(fn_call.tx.metadata.outputs) = 2
    /\ fn_returned[1] = "match"

\* An output predicate of one of the given rules was evaluated.
OutputsCall(rules) ==
    /\ CallReturned("evaluate_transaction_predicate")
    /\ fn_call.self.scope = "outputs"
    /\ fn_call.self.rule \in rules

\* The child indices a descriptor predicate is to derive scripts for.
ChildIndices(desc, range) ==
    IF desc.has_wildcard
    THEN IF range = None THEN 0..4 ELSE range[1][1]..(range[1][2] - 1)
    ELSE {0}

\* Some output of the transaction carries the script, behind the 0x prefix.
OutputCarries(tx, script) ==
    \E i \in DOMAIN tx.metadata.outputs :
        tx.metadata.outputs[i].script_pubkey = <<"0", "x">> \o script

\* C31: an Outputs(Descriptor) predicate whose descriptor has a wildcard
\* matches iff some output carries the script derived at a child index of
\* range[0] .. range[1]-1, of 0..4 when range is unset; a descriptor without
\* a wildcard matches iff some output carries the script derived at index 0,
\* whatever range holds.
C31_DescriptorMatchesOverRange ==
    (OutputsCall({"descriptor"}) /\ parse_descriptor(fn_call.self.expression).ok) =>
        LET desc == parse_descriptor(fn_call.self.expression).value
        IN  (fn_returned[1] = "match") <=>
                \E i \in ChildIndices(desc, fn_call.self.range) :
                    OutputCarries(fn_call.tx, derived_script_pubkey(desc, i))

\* A wildcard descriptor with range unset matched an output derived at
\* index 4, the last index of the default range.
C31_Witness ==
    /\ OutputsCall({"descriptor"})
    /\ fn_call.self.expression = "wpkh(xpub/*)"
    /\ fn_call.self.range = None
    /\ OutputCarries(fn_call.tx, derived_script_pubkey([has_wildcard |-> TRUE], 4))
    /\ fn_returned[1] = "match"

\* C32: a P2wpkh or P2wsh predicate matches only when its address decodes to
\* a witness program, and a witness address used in a P2pkh or P2sh predicate
\* never matches an output carrying that address's witness script.
C32_WitnessAddressOnlyInWitnessPredicates ==
    /\ (OutputsCall({"p2wpkh", "p2wsh"}) /\ fn_returned[1] = "match") =>
            LET address == Address_from_str(fn_call.self.encoded_address)
            IN  address.ok /\ address.value.payload = "WitnessProgram"
    /\ OutputsCall({"p2pkh", "p2sh"}) =>
            LET address == Address_from_str(fn_call.self.encoded_address)
            IN  (/\ address.ok
                 /\ address.value.payload = "WitnessProgram"
                 /\ OutputCarries(fn_call.tx, address_bytes(address.value))) =>
                    fn_returned[1] # "match"

\* C33: an Inputs(Txid{txid, vout}) predicate matches a transaction iff a
\* single input has previous_output.txid = txid and previous_output.vout =
\* vout; a transaction with the txid on one input and the vout only on
\* another input does not match.
C33_InputsTxidOnOneInput ==
    (CallReturned("evaluate_transaction_predicate")
        /\ fn_call.self.scope = "inputs"
        /\ fn_call.self.rule = "txid") =>
        LET inputs == fn_call.tx.metadata.inputs
        IN  (fn_returned[1] = "match") <=>
                \E i \in DOMAIN inputs :
                    inputs[i].previous_output =
                        [txid |-> [hash |-> fn_call.self.txid], vout |-> fn_call.self.vout]

\* The predicate (c, 1) was evaluated on the transaction spending (c, 0) and
\* (d, 1), and did not match.
C33_Witness ==
    /\ CallReturned("evaluate_transaction_predicate")
    /\ fn_call.self = PredicateInputsTxid("c", 1)
    /\ fn_call.tx = TxTwoInputs
    /\ fn_returned[1] = "no_match"

\* C34: in every interleaving of the event loop and the scan runloop no
\* status merge meets a previous state it declares illegal (set_streaming
\* never reads New or Interrupted, set_scanning never reads Streaming or
\* Interrupted, set_expired never reads Interrupted), so no thread is aborted
\* by unreachable!().
C34_NoMergeMeetsIllegalState ==
    ~thread_aborted

\* C35: once PredicateDeregistered was handled for the key and its record
\* deleted, and until a new PredicateRegistered is handled, no step of the
\* event loop or of the scan runloop stores a status or a specification for
\* the key again.
C35_DeregisteredStaysDeleted ==
    [][(/\ http_api = "On"
        /\ registered_events > 0
        /\ observer_predicate = "absent"
        /\ status = NoStatus
        /\ stored_specification = None
        /\ observer_predicate' = "absent")
            => (status' = NoStatus /\ stored_specification' = None)]_vars

\* C36: applying one evaluation report to a Streaming predicate counts each
\* block once: blocks_evaluated grows by the number of distinct blocks the
\* report lists for the predicate across its triggered, evaluated and
\* expired sets.
C36_ReportCountsEachBlockOnce ==
    (ReportApplied /\ prev_status.kind = "Streaming" /\ ~thread_aborted) =>
        /\ HasCounters(status)
        /\ status.number_of_blocks_evaluated
              = prev_status.number_of_blocks_evaluated
                    + Cardinality(ListedBlocks(last_input.report))

\* The transaction identifiers of a list of transactions, in order.
Identifiers(transactions) ==
    [t \in DOMAIN transactions |-> transactions[t].transaction_identifier]

\* The entries are the (transactions, block) pairs in order: each entry is
\* the block of its pair and holds the transactions of its pair.
EntriesOfPairs(pairs, blocks) ==
    /\ Len(blocks) = Len(pairs)
    /\ \A i \in DOMAIN pairs :
        /\ blocks[i].block_identifier = pairs[i][2].block_identifier
        /\ Identifiers(blocks[i].transactions) = Identifiers(pairs[i][1])

C38_DownloadTerminates ==
    <>(downloader.pc \in {"returned_ok", "returned_err"})

\* The chunks in one sequence of bytes.
RECURSIVE Concatenation(_)
Concatenation(chunks) ==
    IF chunks = <<>> THEN <<>> ELSE Head(chunks) \o Concatenation(Tail(chunks))

\* C39: the bytes read from ChannelRead are the concatenation, in order, of
\* all the chunks sent on the channel, and the reader reports end of input
\* only after the sender has been closed - also when a chunk is empty.
C39_ReaderYieldsChunksInOrder ==
    LET bytes == Concatenation(downloader.sent)
    IN  /\ Len(decoder_thread.content) <= Len(bytes)
        /\ decoder_thread.content = SubSeq(bytes, 1, Len(decoder_thread.content))
        /\ decoder_thread.eof =>
              /\ ~downloader.tx
              /\ decoder_thread.content = bytes

\* C40: whenever a call finds the local sha256 file matching the remote one,
\* the local TSV is the complete archive of that sha256 file; a download
\* that failed or was interrupted leaves no cache that a later call reports
\* as up to date.
C40_UpToDateCacheHoldsArchive ==
    (ComparesSha /\ archive_calls # <<>> /\ FoundUpToDate(Last(archive_calls))) =>
        local_tsv_file = Last(archive_calls).local

====
